---- MODULE Spec2Model ----
(***************************************************************************)
(* A model of claude-sdk-teacher: the TodoManager task-list store, the     *)
(* SubAgentOrchestrator (delegateParallel / orchestrate) and the tool-use  *)
(* loops (runAgentWithTodos, SandboxedClaudeAgent.run, toolUseExample).    *)
(***************************************************************************)
EXTENDS Integers, Sequences, FiniteSets, TLC

\* ------------------------------------------------------------------------
\* Bounds
\* ------------------------------------------------------------------------

\* longest candidate list handed to TodoManager.update
MaxTodos == 2

\* longest task list handed to delegateParallel or planned by the model
MaxTasks == 2

\* most content blocks a varying model sends in one run of a tool loop
MaxBlocks == 2

\* tool rounds after which a varying model stops asking for tools
MaxRounds == 2

\* agent loops that share one TodoManager
MaxAgents == 2

\* rounds of toolUseExample followed when the model never stops asking
MaxExampleRounds == 12

\* most pieces of text before and after the plan in a planning reply
MaxAround == 2

\* the longest list whose statistics are taken
MaxStatsTotal == 40

\* AgentQueryBuilders made, messages added to one array, queries built
MaxBuilders == 3
MaxMessages == 2
MaxQueries == 2

VARIABLES
    todos,      \* TodoManager.todos: the stored list
    todoFile,   \* content of the file TodoManager.todoFile names
    diskOk,     \* whether fs.writeFileSync on todoFile succeeds in this run
    lastCall    \* the last TodoManager call: its candidate, outcome and getAll() before it

todoVars == <<todos, todoFile, diskOk, lastCall>>

VARIABLES
    subAgents,   \* SubAgentOrchestrator.subAgents: the Map, as its entries in insertion order
    orchPc,      \* where the running delegateParallel / orchestrate call stands
    call,        \* the call made on the orchestrator and its argument
    planText,    \* the text of the planning reply
    plan,        \* the parsed plan
    tasks,       \* the SubAgentTask list being executed
    branches,    \* delegateParallel: one promise per task
    settled,     \* delegateParallel: task indices in the order their promises settled
    seqIndex,    \* orchestrate, sequential branch: the step being awaited
    results,     \* the SubAgentResult list collected so far / returned
    registered,  \* per agent name: the config of the latest registerSubAgent call
    firstNames,  \* the names given to registerSubAgent, in the order of their first call
    requests,    \* every client.messages.create request issued, in order
    answered,    \* indices into requests of the requests the model has answered
    outcome      \* how the call ended: value returned or error thrown

orchVars == <<subAgents, orchPc, call, planText, plan, tasks, branches, settled,
              seqIndex, results, registered, firstNames, requests, answered, outcome>>

VARIABLES
    loopKind,    \* which loop runs: runAgentWithTodos, SandboxedClaudeAgent.run, toolUseExample
    modelMode,   \* how the model behind client.messages.create answers in this run
    messages,    \* the loop's message history
    response,    \* the loop's last response
    iterations,  \* iterations / iterationCount
    loopPc,      \* awaiting a response, or done
    finalText,   \* the final text the loop printed or returned
    fsFiles,     \* the files the SandboxedFileSystem works on
    fsCall       \* the latest call of a SandboxedFileSystem method and what it returned

loopVars == <<loopKind, modelMode, messages, response, iterations, loopPc, finalText, fsFiles,
              fsCall>>

VARIABLES
    agentPc,         \* per agent loop on a shared TodoManager: where it stands
    agentCandidate,  \* per agent loop: the list of the update call it is in
    agentRounds,     \* per agent loop: the tool rounds it has begun
    running          \* the agent loop whose callback holds the thread, or 0

shareVars == <<agentPc, agentCandidate, agentRounds, running>>

VARIABLES
    held,         \* the array a caller of the TodoManager holds
    heldFrom,     \* how the caller came by it: returned by getAll, or passed to update
    sharedArray,  \* whether that array is the very array this.todos refers to
    sharedTask,   \* per entry of held: the index in this.todos of the same object, or 0
    callerStep    \* what the caller did last

VARIABLES
    arrays,       \* the message arrays allocated for AgentQueryBuilders, by reference
    builders,     \* per AgentQueryBuilder: the reference its query.messages holds, and
                  \* the builder it was cloned from, or 0
    built,        \* per query returned by build(): the reference its messages holds
    builderCall   \* the latest AgentQueryBuilder call

builderVars == <<arrays, builders, built, builderCall>>

aliasVars == <<held, heldFrom, sharedArray, sharedTask, callerStep, builderVars>>

\* ------------------------------------------------------------------------
\* Todo / TodoManager (src/src/todo-manager.ts)
\* ------------------------------------------------------------------------

Todo(c, s, a) == [content |-> c, status |-> s, activeForm |-> a]

TodoStatus == {"pending", "in_progress", "completed"}

\* The tasks a caller (the model's tool input, cast without a check) can send:
\* the three valid statuses, a falsy and a whitespace-only content, an empty
\* activeForm, a status outside TodoStatus, and a task that breaks all three.
CandidateTodos ==
    { Todo("a", "pending", "A"),
      Todo("a", "in_progress", "A"),
      Todo("a", "completed", "A"),
      Todo("", "in_progress", "A"),
      Todo(" ", "pending", "A"),
      Todo("a", "completed", ""),
      Todo("a", "done", "A"),
      Todo("", "done", "") }

SeqsUpTo(S, n) == UNION { [1..k -> S] : k \in 0..n }

CandidateLists == SeqsUpTo(CandidateTodos, MaxTodos)

\* String.prototype.trim on the strings of the model
trim(s) == IF s = " " THEN "" ELSE s

\* !x || x.trim() === ''
isBlank(s) == s = "" \/ trim(s) = ""

\* todos.filter(t => t.status === status)
filterByStatus(list, status) == SelectSeq(list, LAMBDA t : t.status = status)

NoError == [kind |-> "ok", index |-> 0, count |-> 0]

ValidationError(kind, index, count) == [kind |-> kind, index |-> index, count |-> count]

\* the checks of the forEach callback on one task, in the order of the code
todoError(t) ==
    IF isBlank(t.content) THEN "content_empty"
    ELSE IF isBlank(t.activeForm) THEN "activeForm_empty"
    ELSE IF t.status \notin TodoStatus THEN "invalid_status"
    ELSE "ok"

\* the in_progress rule never firing
tooManyInProgressNever(n) == FALSE

\* inProgressCount > 1
tooManyInProgress(n) == n > 1

\* the field checks made rule by rule: content and activeForm of every
\* task first, the status of every task after them
validateRuleByRule(list) ==
    LET inProgressCount == Len(filterByStatus(list, "in_progress"))
        blank == { i \in 1..Len(list) : isBlank(list[i].content) \/ isBlank(list[i].activeForm) }
        invalid == { i \in 1..Len(list) : list[i].status \notin TodoStatus }
    IN  IF Len(list) = 0 THEN ValidationError("empty", 0, 0)
        ELSE IF tooManyInProgress(inProgressCount)
             THEN ValidationError("multiple_in_progress", 0, inProgressCount)
        ELSE IF blank # {}
             THEN LET i == CHOOSE j \in blank : \A k \in blank : j <= k
                  IN  ValidationError(IF isBlank(list[i].content) THEN "content_empty"
                                      ELSE "activeForm_empty", i, 0)
        ELSE IF invalid # {}
             THEN ValidationError("invalid_status",
                                  CHOOSE j \in invalid : \A k \in invalid : j <= k, 0)
        ELSE NoError

\* validate(todos): the error it throws, or NoError
validate(list) ==
    LET inProgressCount == Len(filterByStatus(list, "in_progress"))
        bad == { i \in 1..Len(list) : todoError(list[i]) # "ok" }
    IN  IF Len(list) = 0 THEN ValidationError("empty", 0, 0)
        ELSE IF tooManyInProgress(inProgressCount)
             THEN ValidationError("multiple_in_progress", 0, inProgressCount)
        ELSE IF bad # {}
             THEN LET i == CHOOSE j \in bad : \A k \in bad : j <= k
                  IN  ValidationError(todoError(list[i]), i, 0)
        ELSE NoError

\* getAll(): a copy of the stored list
getAll(list) == [i \in 1..Len(list) |-> list[i]]

\* round(x / y) in exact arithmetic for x >= 0, y > 0: halves round up
roundDiv(x, y) == (2 * x + y) \div (2 * y)

\* JavaScript numbers are IEEE 754 doubles: 53 significant bits, results
\* rounded to the nearest double, ties to the even one. A double >= 0 is
\* kept as an integer of four limbs of 18 bits, first limb on top, over a
\* power of two: value = (l[1] * B^3 + l[2] * B^2 + l[3] * B + l[4]) / 2^frac
significandBits == 53
limbBits == 18
limbBase == 2^limbBits

Double(limbs, frac) == [limbs |-> limbs, frac |-> frac]
DoubleZero == Double(<<0, 0, 0, 0>>, 0)

\* limbs that outgrew the base hand their excess to the limb above
limbsCarryOnce(l) ==
    LET v3 == l[3] + (l[4] \div limbBase)
        v2 == l[2] + (v3 \div limbBase)
    IN  <<l[1] + (v2 \div limbBase), v2 % limbBase, v3 % limbBase, l[4] % limbBase>>

\* v is l, computed once
limbsCarry(l) == CHOOSE r \in { limbsCarryOnce(v) : v \in {l} } : TRUE

RECURSIVE bitLength(_)
bitLength(n) == IF n = 0 THEN 0 ELSE 1 + bitLength(n \div 2)

limbsBitLength(l) ==
    IF l[1] > 0 THEN 3 * limbBits + bitLength(l[1])
    ELSE IF l[2] > 0 THEN 2 * limbBits + bitLength(l[2])
    ELSE IF l[3] > 0 THEN limbBits + bitLength(l[3])
    ELSE bitLength(l[4])

\* the k lowest bits of l cut off, the rest one up when the cut bits are
\* above the half, or at the half with something below them or an odd rest
roundCut(l, sticky, k) ==
    IF k <= 0 THEN l
    ELSE LET dropped == l[4] % (2^k)
             half == 2^(k - 1)
             odd == IF k < limbBits THEN ((l[4] \div (2^k)) % 2) = 1 ELSE (l[3] % 2) = 1
             up == \/ dropped > half
                   \/ dropped = half /\ (sticky \/ odd)
         IN  limbsCarry(<<l[1], l[2], l[3], l[4] - dropped + (IF up THEN 2^k ELSE 0)>>)

\* round to nearest, ties to even: an integer of up to 18 bits more than
\* the significand cut to the significand; sticky tells that the exact
\* value has something below the last limb (v is l, computed once)
roundNearestEven(l, sticky) ==
    CHOOSE r \in { roundCut(v, sticky, limbsBitLength(v) - significandBits) : v \in {l} } : TRUE

RECURSIVE doublings(_, _)
\* how often x doubles to reach y
doublings(x, y) == IF x >= y THEN 0 ELSE 1 + doublings(2 * x, y)

\* x / y for integers 0 <= x <= y, y > 0: long division, a limb at a time,
\* of x * 2^s (in [y, 2y)) by y to one bit more than the significand
jsDivide(x, y) ==
    IF x = 0 THEN DoubleZero
    ELSE LET s == doublings(x, y)
             n1 == x * (2^s) * (2^(limbBits - 1))
             n2 == (n1 % y) * limbBase
             n3 == (n2 % y) * limbBase
         IN  Double(roundNearestEven(<<0, n1 \div y, n2 \div y, n3 \div y>>, n3 % y # 0),
                    s + significandBits)

\* f * 100
jsTimes100(f) ==
    Double(roundNearestEven(limbsCarry([i \in 1..4 |-> 100 * f.limbs[i]]), FALSE), f.frac)

\* Math.round(f) for 0 <= f with at least two limbs of fraction: the
\* integer part, one more from a fraction of a half or above
mathRound(f) ==
    LET top == f.limbs[1] * limbBase + f.limbs[2]
        below == f.frac - 2 * limbBits
    IN  IF f = DoubleZero THEN 0
        ELSE (top \div (2^below)) + ((top \div (2^(below - 1))) % 2)

getStats(list) ==
    LET total == Len(list)
        completed == Len(filterByStatus(list, "completed"))
    IN  [ total |-> total,
          pending |-> Len(filterByStatus(list, "pending")),
          inProgress |-> Len(filterByStatus(list, "in_progress")),
          completed |-> completed,
          progress |-> IF total > 0 THEN mathRound(jsTimes100(jsDivide(completed, total)))
                       ELSE 0 ]

\* file contents: no file, a file that is not JSON, or the document save wrote
MissingFile == [kind |-> "missing", todos |-> <<>>]
MalformedFile == [kind |-> "malformed", todos |-> <<>>]
JsonFile(list) == [kind |-> "json", todos |-> list]

\* the try block of load(): nothing read when the file does not exist,
\* JSON.parse throwing on a file that is not JSON, else parsed.todos
loadTry(file) ==
    IF file.kind = "missing" THEN [threw |-> FALSE, todos |-> <<>>]
    ELSE IF file.kind = "malformed" THEN [threw |-> TRUE, todos |-> <<>>]
    ELSE [threw |-> FALSE, todos |-> file.todos]

\* load() without its catch: the error leaves the constructor
catchLoadRethrow(r) == r

\* the catch of load(): the error is logged and the list is emptied
catchLoad(r) == IF r.threw THEN [threw |-> FALSE, todos |-> <<>>] ELSE r

\* load(): the list a new TodoManager starts with
load(file) == catchLoad(loadTry(file)).todos

\* new TodoManager(todoFile): the error that left the constructor, or NoError
constructorError(file) ==
    IF catchLoad(loadTry(file)).threw THEN ValidationError("load_failed", 0, 0) ELSE NoError

\* a write that reports success and leaves the file as it was
saveTryKeep(file, list, writable) == [threw |-> FALSE, file |-> file]

\* the try block of save(): writeFileSync writes the document or throws
saveTry(file, list, writable) ==
    IF writable THEN [threw |-> FALSE, file |-> JsonFile(list)]
    ELSE [threw |-> TRUE, file |-> file]

\* save() without its catch: the error leaves save and its caller
catchSaveRethrow(r) == r

\* the catch of save(): the error is logged
catchSave(r) == [threw |-> FALSE, file |-> r.file]

\* save(): the file after writing list; a failing write is caught and logged
save(file, list, writable) == catchSave(saveTry(file, list, writable)).file

\* the error that left save(), or NoError
saveError(file, list, writable) ==
    IF catchSave(saveTry(file, list, writable)).threw
    THEN ValidationError("save_failed", 0, 0) ELSE NoError

\* the store taking the candidate before validate has run
storeAfterUpdateUnchecked(old, candidate, err) == candidate

\* the accepted candidate added to the stored list instead of replacing it
storeAfterUpdateMerged(old, candidate, err) ==
    IF err.kind = "ok" THEN old \o candidate ELSE old

\* update(), lines 91-92: the stored list after validate threw err or passed
storeAfterUpdate(old, candidate, err) == IF err.kind = "ok" THEN candidate ELSE old

\* an update that writes the candidate whether or not validate threw
fileAfterUpdateAlways(file, candidate, writable, err) == save(file, candidate, writable)

\* update(), lines 91-93: the file after validate threw err or passed;
\* save() is reached only past validate
fileAfterUpdate(file, candidate, writable, err) ==
    IF err.kind = "ok" THEN save(file, candidate, writable) ELSE file

InitFiles == { MissingFile, MalformedFile, JsonFile(<<>>),
               JsonFile(<<Todo("a", "pending", "A")>>) }

TodoInit ==
    /\ todoFile \in InitFiles
    /\ diskOk \in BOOLEAN
    /\ todos = load(todoFile)
    /\ lastCall = [op |-> "new", candidate |-> <<>>, error |-> constructorError(todoFile),
                   before |-> <<>>]

\* what the file may hold when the manager is constructed: the files above,
\* and documents written by another program or by hand, which load() takes
\* as they are
AnyFiles ==
    InitFiles
    \cup { JsonFile(<<Todo("a", "in_progress", "A"), Todo("a", "in_progress", "A")>>),
           JsonFile(<<Todo("", "pending", "A")>>) }

\* new TodoManager(todoFile) on any of these files
TodoInitAnyFile ==
    /\ todoFile \in AnyFiles
    /\ diskOk \in BOOLEAN
    /\ todos = load(todoFile)
    /\ lastCall = [op |-> "new", candidate |-> <<>>, error |-> constructorError(todoFile),
                   before |-> <<>>]

\* update(todos): validate, replace, save, display
update(candidate) ==
    LET err == validate(candidate)
        stored == storeAfterUpdate(todos, candidate, err)
    IN  /\ todos' = stored
        /\ todoFile' = fileAfterUpdate(todoFile, candidate, diskOk, err)
        /\ lastCall' = [op |-> "update", candidate |-> candidate,
                        error |-> IF err.kind = "ok" THEN saveError(todoFile, stored, diskOk)
                                  ELSE err,
                        before |-> getAll(todos),
                        displayed |-> err.kind = "ok"]
        /\ UNCHANGED <<diskOk, orchVars, loopVars, shareVars>>

Update == (\E candidate \in CandidateLists : update(candidate)) /\ UNCHANGED aliasVars

\* clear(): empty the list and save
Clear ==
    /\ todos' = <<>>
    /\ todoFile' = save(todoFile, <<>>, diskOk)
    /\ lastCall' = [op |-> "clear", candidate |-> <<>>,
                    error |-> saveError(todoFile, <<>>, diskOk),
                    before |-> getAll(todos)]
    /\ UNCHANGED <<diskOk, orchVars, loopVars, shareVars, aliasVars>>

TodoNext == Update \/ Clear

\* a long list worked through: a manager that loaded a file of pending
\* tasks, updates that move the first unfinished task one status on, and
\* getStats() between them
PendingLists == { [i \in 1..n |-> Todo("a", "pending", "A")] : n \in 0..MaxStatsTotal }

StatsInit ==
    /\ todoFile \in { JsonFile(list) : list \in PendingLists }
    /\ diskOk = TRUE
    /\ todos = load(todoFile)
    /\ lastCall = [op |-> "new", candidate |-> <<>>, error |-> constructorError(todoFile),
                   before |-> <<>>]

nextStatus(status) == IF status = "pending" THEN "in_progress" ELSE "completed"

\* update(todos) with the stored list, its first unfinished task moved on
AdvanceUpdate ==
    /\ \E i \in 1..Len(todos) :
         /\ todos[i].status # "completed"
         /\ \A j \in 1..(i - 1) : todos[j].status = "completed"
         /\ update([todos EXCEPT ![i].status = nextStatus(todos[i].status)])
    /\ UNCHANGED aliasVars

\* getStats()
GetStats ==
    /\ lastCall' = [op |-> "getStats", candidate |-> <<>>, error |-> NoError,
                    before |-> getAll(todos), stats |-> getStats(todos)]
    /\ UNCHANGED <<todoFile, diskOk, todos, orchVars, loopVars, shareVars, aliasVars>>

StatsNext == AdvanceUpdate \/ GetStats

\* ------------------------------------------------------------------------
\* The model RPC (client.messages.create): requests and replies
\* ------------------------------------------------------------------------

\* a parsed JSON value: a plan, or a value that has no tasks (such as {})
PlanValue(ts, par) == [kind |-> "plan", tasks |-> ts, parallel |-> par]
NoPlan == [kind |-> "none", tasks |-> <<>>, parallel |-> FALSE]
OtherJson == [kind |-> "other", tasks |-> <<>>, parallel |-> FALSE]

\* Texts are sequences of tokens: a code-fence marker, the json language
\* tag, whitespace, prose, or the text of one JSON value.
Tok(kind) == [t |-> kind, v |-> NoPlan]
JsonTok(value) == [t |-> "value", v |-> value]
Fence == Tok("fence")
JsonTag == Tok("json")
Ws == Tok("ws")
Prose == Tok("prose")

EmptyText == <<>>

TextBlock(text) == [type |-> "text", text |-> text]

OkReply(content) == [ok |-> TRUE, content |-> content, error |-> ""]
FailReply == [ok |-> FALSE, content |-> <<>>, error |-> "rpc_error"]
NoReply == [ok |-> FALSE, content |-> <<>>, error |-> "unanswered"]

\* response.content[0] taken for the text block
textOfFirstBlock(content) ==
    IF content # <<>> /\ content[1].type = "text" THEN content[1].text ELSE EmptyText

\* response.content.find(block => block.type === 'text')?.text || ''
firstText(content) ==
    LET idx == { i \in 1..Len(content) : content[i].type = "text" }
    IN  IF idx = {} THEN EmptyText
        ELSE content[CHOOSE i \in idx : \A j \in idx : i <= j].text

UserTurn(content) == [role |-> "user", content |-> content]

Request(kind, agent, system, model, history) ==
    [kind |-> kind, agent |-> agent, system |-> system, model |-> model,
     messages |-> history]

\* ------------------------------------------------------------------------
\* SubAgent / SubAgentOrchestrator (src/src/todo-manager.ts, 646-921)
\* ------------------------------------------------------------------------

AgentNames == {"reviewer", "writer"}
SystemPrompts == {"s1", "s2"}
Prompts == {"p1", "p2"}
UserRequests == {"u1"}
DefaultModel == "claude-3-5-sonnet-20241022"

OtherModel == "claude-3-haiku-20240307"

\* a config given without a model
NoModel == ""

\* the config handed to registerSubAgent
GivenConfig(name, systemPrompt, model) ==
    [name |-> name, systemPrompt |-> systemPrompt, model |-> model]

\* the config a SubAgent keeps: { model: default, ...config }
SubAgentConfig(given) ==
    [name |-> given.name, systemPrompt |-> given.systemPrompt,
     model |-> IF given.model = NoModel THEN DefaultModel ELSE given.model]

\* the configs registered: the first prompt without a model, the second
\* with a model of its own
Configs ==
    { GivenConfig(n, "s1", NoModel) : n \in AgentNames }
    \cup { GivenConfig(n, "s2", OtherModel) : n \in AgentNames }

SubAgentTask(agentName, prompt) == [agentName |-> agentName, prompt |-> prompt]

Tasks == { SubAgentTask(a, p) : a \in AgentNames, p \in Prompts }

TaskLists == SeqsUpTo(Tasks, MaxTasks)

\* error absent is the empty string
SubAgentResult(agentName, result, error) ==
    [agentName |-> agentName, result |-> result, error |-> error]

NoResult == SubAgentResult("", EmptyText, "")

\* Map.has / Map.get / Map.set / Map.keys on the entries in insertion order
mapHas(m, name) == \E i \in 1..Len(m) : m[i].name = name
mapGet(m, name) == m[CHOOSE i \in 1..Len(m) : m[i].name = name]
\* Map.delete followed by Map.set: a name registered again moves to the end
mapSetMoveLast(m, config) ==
    Append(SelectSeq(m, LAMBDA e : e.name # config.name), config)

\* the first registration of a name kept, a later one dropped
mapSetKeepFirst(m, config) == IF mapHas(m, config.name) THEN m ELSE Append(m, config)

mapSet(m, config) ==
    IF mapHas(m, config.name)
    THEN [i \in 1..Len(m) |-> IF m[i].name = config.name THEN config ELSE m[i]]
    ELSE Append(m, config)
mapKeys(m) == [i \in 1..Len(m) |-> m[i].name]

NotFound == "not_found"

\* a sub-agent that keeps one conversation: the user turns of the requests
\* issued before are sent again, ahead of the new prompt
subRequestShared(m, task) ==
    LET config == mapGet(m, task.agentName)
        earlier == SelectSeq(requests, LAMBDA r : r.kind = "sub")
    IN  Request("sub", task.agentName, config.systemPrompt, config.model,
                [k \in 1..Len(earlier) |-> earlier[k].messages[Len(earlier[k].messages)]]
                \o <<UserTurn(task.prompt)>>)

\* the request SubAgent.execute issues for a task of a registered agent
subRequest(m, task) ==
    LET config == mapGet(m, task.agentName)
    IN  Request("sub", task.agentName, config.systemPrompt, config.model,
                <<UserTurn(task.prompt)>>)

\* SubAgent.execute after the reply: the text it returns or the error it rethrows
subAgentExecute(reply) ==
    IF reply.ok THEN [threw |-> FALSE, text |-> firstText(reply.content), error |-> ""]
    ELSE [threw |-> TRUE, text |-> EmptyText, error |-> reply.error]

\* delegateToSubAgent failing before any request: the agent is not registered
notFoundThrow == [threw |-> TRUE, text |-> EmptyText, error |-> NotFound]

Promise(state, value, req) == [state |-> state, value |-> value, req |-> req]

\* the branch callback without its catch: the error rejects the promise
branchSettleRethrow(task, exec, req) ==
    IF exec.threw
    THEN Promise("rejected", SubAgentResult(task.agentName, EmptyText, exec.error), req)
    ELSE Promise("fulfilled", SubAgentResult(task.agentName, exec.text, ""), req)

\* the callback of tasks.map in delegateParallel: try/catch around the delegation
branchSettle(task, exec, req) ==
    IF exec.threw
    THEN Promise("fulfilled", SubAgentResult(task.agentName, EmptyText, exec.error), req)
    ELSE Promise("fulfilled", SubAgentResult(task.agentName, exec.text, ""), req)

\* the values of the promises collected in the order they settled
promiseAllArrival(bs, order) ==
    IF \E i \in 1..Len(bs) : bs[i].state = "rejected"
    THEN [state |-> "rejected", values |-> <<>>]
    ELSE IF \A i \in 1..Len(bs) : bs[i].state = "fulfilled"
         THEN [state |-> "fulfilled", values |-> [k \in 1..Len(order) |-> bs[order[k]].value]]
         ELSE [state |-> "pending", values |-> <<>>]

\* resolving as soon as one promise is fulfilled
promiseAllEarly(bs, order) ==
    IF \E i \in 1..Len(bs) : bs[i].state = "rejected"
    THEN [state |-> "rejected", values |-> <<>>]
    ELSE IF Len(bs) = 0 \/ \E i \in 1..Len(bs) : bs[i].state = "fulfilled"
         THEN [state |-> "fulfilled",
               values |-> SelectSeq([i \in 1..Len(bs) |-> bs[i].value],
                                    LAMBDA r : r # NoResult)]
         ELSE [state |-> "pending", values |-> <<>>]

\* Promise.all(promises): rejected once a promise is rejected, fulfilled with
\* the values by index once all are fulfilled
promiseAll(bs, order) ==
    IF \E i \in 1..Len(bs) : bs[i].state = "rejected"
    THEN [state |-> "rejected", values |-> <<>>]
    ELSE IF \A i \in 1..Len(bs) : bs[i].state = "fulfilled"
         THEN [state |-> "fulfilled", values |-> [i \in 1..Len(bs) |-> bs[i].value]]
         ELSE [state |-> "pending", values |-> <<>>]

Indices(n) == [i \in 1..n |-> i]

\* tasks.map(async ...) run to the first await of every callback: the tasks
\* of registered agents have their request issued, in index order; the
\* others have thrown, and their catch settles them before any reply arrives
startParallel(m, ts, reqs) ==
    LET found(i) == mapHas(m, ts[i].agentName)
        foundSeq == SelectSeq(Indices(Len(ts)), found)
        reqOf(i) == Len(reqs) + Cardinality({ j \in 1..i : found(j) })
    IN  [ requests |-> reqs \o [k \in 1..Len(foundSeq) |-> subRequest(m, ts[foundSeq[k]])],
          branches |-> [i \in 1..Len(ts) |->
                          IF found(i) THEN Promise("pending", NoResult, reqOf(i))
                          ELSE branchSettle(ts[i], notFoundThrow, 0)],
          settled |-> SelectSeq(Indices(Len(ts)), LAMBDA i : ~found(i)) ]

\* ------------------------------------------------------------------------
\* orchestrate: the planning reply and its parsing (lines 844-861)
\* ------------------------------------------------------------------------

\* String.prototype.trim on texts: leading and trailing whitespace dropped
trimText(s) ==
    LET solid == { i \in 1..Len(s) : s[i].t # "ws" }
    IN  IF solid = {} THEN EmptyText
        ELSE SubSeq(s, CHOOSE i \in solid : \A j \in solid : i <= j,
                       CHOOSE i \in solid : \A j \in solid : i >= j)

Least(S) == CHOOSE i \in S : \A j \in S : i <= j

\* the positions where '```json' starts, and where '```' stands
fenceJsonAt(s) == { i \in 1..(Len(s) - 1) : s[i] = Fence /\ s[i + 1] = JsonTag }
fenceAt(s) == { i \in 1..Len(s) : s[i] = Fence }

\* s.split('```json')[1]
splitFenceJson1(s) ==
    LET first == Least(fenceJsonAt(s))
        later == { i \in fenceJsonAt(s) : i > first }
    IN  SubSeq(s, first + 2, IF later = {} THEN Len(s) ELSE Least(later) - 1)

\* s.split('```')[1]
splitFence1(s) ==
    LET first == Least(fenceAt(s))
        later == { i \in fenceAt(s) : i > first }
    IN  SubSeq(s, first + 1, IF later = {} THEN Len(s) ELSE Least(later) - 1)

\* s.split('```')[0]
splitFence0(s) ==
    IF fenceAt(s) = {} THEN s ELSE SubSeq(s, 1, Least(fenceAt(s)) - 1)

\* the extraction trying the plain fence first
extractJsonPlainFirst(text) ==
    LET jsonText == trimText(text)
    IN  IF fenceAt(jsonText) # {}
        THEN trimText(splitFence0(splitFence1(jsonText)))
        ELSE jsonText

\* lines 851-856: the text handed to JSON.parse
extractJson(text) ==
    LET jsonText == trimText(text)
    IN  IF fenceJsonAt(jsonText) # {}
        THEN trimText(splitFence0(splitFenceJson1(jsonText)))
        ELSE IF fenceAt(jsonText) # {}
             THEN trimText(splitFence0(splitFence1(jsonText)))
             ELSE jsonText

\* JSON.parse: the value, or a SyntaxError unless the text is one JSON value
jsonParse(text) ==
    IF Len(text) = 1 /\ text[1].t = "value"
    THEN [ok |-> TRUE, value |-> text[1].v]
    ELSE [ok |-> FALSE, value |-> NoPlan]

\* a parse failure replaced by a plan without steps
planOfFallback(text) ==
    LET parsed == jsonParse(extractJson(text))
    IN  IF parsed.ok /\ parsed.value.kind = "plan" THEN parsed
        ELSE [ok |-> TRUE, value |-> PlanValue(<<>>, FALSE)]

\* lines 851-860: the plan, or the failure of JSON.parse or of plan.tasks.length
planOf(text) ==
    LET parsed == jsonParse(extractJson(text))
    IN  IF parsed.ok /\ parsed.value.kind = "plan" THEN parsed
        ELSE [ok |-> FALSE, value |-> NoPlan]

\* line 865 with the number of steps ignored
useParallelFlagOnly(p) == p.parallel

\* line 865 with the parallel flag ignored
useParallelAlways(p) == Len(p.tasks) > 1

\* line 865: plan.parallel && plan.tasks.length > 1
useParallel(p) == p.parallel /\ Len(p.tasks) > 1

Plans == { PlanValue(ts, par) : ts \in TaskLists, par \in BOOLEAN }

\* the payloads a planning reply is built around
Payloads == { JsonTok(p) : p \in Plans } \cup { JsonTok(OtherJson), Prose }

\* the payloads tried in every fenced form
FencedPayloads ==
    { JsonTok(PlanValue(<<SubAgentTask("reviewer", "p1")>>, FALSE)),
      JsonTok(OtherJson), Prose }

PlanTexts ==
    { EmptyText }
    \cup { <<x>> : x \in Payloads }
    \cup { <<Fence, JsonTag, Ws, x, Ws, Fence>> : x \in FencedPayloads }
    \cup { <<Fence, Ws, x, Ws, Fence>> : x \in FencedPayloads }
    \cup { <<Prose, Ws, Fence, JsonTag, Ws, x, Ws, Fence, Ws, Prose>> : x \in FencedPayloads }

PlanReplies == { OkReply(<<TextBlock(t)>>) : t \in PlanTexts } \cup { OkReply(<<>>), FailReply }

\* what stands around a plan in a reply: nothing, whitespace, prose
Around == SeqsUpTo({Ws, Prose}, MaxAround)
Padding == { <<>>, <<Ws>> }

\* the plans tried in every form: no task, one task, two tasks in
\* sequence, two tasks in parallel
FormPlans ==
    { PlanValue(<<>>, FALSE),
      PlanValue(<<SubAgentTask("reviewer", "p1")>>, TRUE),
      PlanValue(<<SubAgentTask("reviewer", "p1"), SubAgentTask("writer", "p2")>>, FALSE),
      PlanValue(<<SubAgentTask("writer", "p1"), SubAgentTask("reviewer", "p2")>>, TRUE) }

\* a plan between code-fence markers, with and without the json tag
FencedForms ==
    { open \o l \o <<JsonTok(p)>> \o r \o <<Fence>> :
        open \in { <<Fence, JsonTag>>, <<Fence>> }, l \in Padding, r \in Padding,
        p \in FormPlans }

\* the replies that hold one plan: fenced with text around, or bare
FormTexts ==
    { pre \o f \o post : pre \in Around, f \in FencedForms, post \in Around }
    \cup { pre \o <<JsonTok(p)>> \o post : pre \in Around, p \in FormPlans, post \in Around }

FormReplies == { OkReply(<<TextBlock(t)>>) : t \in FormTexts }

SubTexts == { <<Tok("t1")>>, <<Tok("t2")>> }

SubReplies == { OkReply(<<TextBlock(t)>>) : t \in SubTexts } \cup { OkReply(<<>>), FailReply }

SynthReplies == { OkReply(<<TextBlock(<<Tok("t1")>>)>>), OkReply(<<>>), FailReply }

\* the system prompt of the planning request: it lists the registered names
orchestratorPrompt(m) == [kind |-> "orchestrator", agents |-> mapKeys(m)]

planRequest(m, userRequest) ==
    Request("plan", "", orchestratorPrompt(m), DefaultModel, <<UserTurn(userRequest)>>)

\* a synthesis prompt whose template leaves the error line out
synthRequestWithoutErrors(userRequest, res) ==
    Request("synth", "", [kind |-> "none", agents |-> <<>>], DefaultModel,
            <<UserTurn([request |-> userRequest,
                        results |-> [i \in 1..Len(res) |->
                                       SubAgentResult(res[i].agentName, res[i].result, "")]])>>)

\* lines 881-903: the synthesis request embeds the request and the results
synthRequest(userRequest, res) ==
    Request("synth", "", [kind |-> "none", agents |-> <<>>], DefaultModel,
            <<UserTurn([request |-> userRequest, results |-> res])>>)

NoOutcome == [kind |-> "none", text |-> EmptyText, error |-> "", phase |-> ""]
Returned(text) == [kind |-> "returned", text |-> text, error |-> "", phase |-> ""]
Threw(error, phase) == [kind |-> "threw", text |-> EmptyText, error |-> error, phase |-> phase]

\* the for loop of lines 870-876 arriving at step i with res collected: it
\* issues the request of step i, throws when the agent is not registered,
\* or leaves the loop and issues the synthesis request
seqStep(m, ts, i, res, reqs, userRequest) ==
    IF i > Len(ts)
    THEN [pc |-> "synth_wait", requests |-> Append(reqs, synthRequest(userRequest, res)),
          seqIndex |-> i, outcome |-> NoOutcome]
    ELSE IF ~mapHas(m, ts[i].agentName)
         THEN [pc |-> "failed", requests |-> reqs, seqIndex |-> i,
               outcome |-> Threw(NotFound, "execute")]
         ELSE [pc |-> "seq_wait", requests |-> Append(reqs, subRequest(m, ts[i])),
               seqIndex |-> i, outcome |-> NoOutcome]

\* the config given to the latest registerSubAgent call for a name
NoRegistration == [config |-> GivenConfig("", "", NoModel), present |-> FALSE]
Registration(config) == [config |-> config, present |-> TRUE]

OrchIdle ==
    /\ subAgents = <<>>
    /\ orchPc = "idle"
    /\ call = [api |-> "none", userRequest |-> ""]
    /\ planText = EmptyText
    /\ plan = NoPlan
    /\ tasks = <<>>
    /\ branches = <<>>
    /\ settled = <<>>
    /\ seqIndex = 0
    /\ results = <<>>
    /\ registered = [n \in AgentNames |-> NoRegistration]
    /\ firstNames = <<>>
    /\ requests = <<>>
    /\ answered = <<>>
    /\ outcome = NoOutcome

\* registerSubAgent(config)
RegisterSubAgent ==
    /\ orchPc = "idle"
    /\ \E config \in Configs :
         /\ subAgents' = mapSet(subAgents, SubAgentConfig(config))
         /\ registered' = [registered EXCEPT ![config.name] = Registration(config)]
         /\ firstNames' = IF registered[config.name].present THEN firstNames
                           ELSE Append(firstNames, config.name)
         /\ call' = [api |-> "registerSubAgent", name |-> config.name,
                      replaced |-> mapHas(subAgents, config.name)]
    /\ UNCHANGED <<todoVars, loopVars, shareVars, aliasVars>>
    /\ UNCHANGED <<orchPc, planText, plan, tasks, branches, settled, seqIndex,
                   results, requests, answered, outcome>>

\* the requests in reqs beyond those answered so far are unanswered
extendAnswered(ans, reqs) == [k \in 1..Len(reqs) |-> IF k <= Len(ans) THEN ans[k] ELSE NoReply]

\* delegateParallel(tasks) called directly
CallDelegateParallel ==
    /\ orchPc = "idle"
    /\ \E ts \in TaskLists :
         LET start == startParallel(subAgents, ts, requests)
         IN  /\ call' = [api |-> "delegateParallel", userRequest |-> ""]
             /\ tasks' = ts
             /\ branches' = start.branches
             /\ settled' = start.settled
             /\ requests' = start.requests
             /\ answered' = extendAnswered(answered, start.requests)
    /\ orchPc' = "par_wait"
    /\ UNCHANGED <<todoVars, loopVars, shareVars, aliasVars>>
    /\ UNCHANGED <<subAgents, registered, firstNames, planText, plan, seqIndex, results, outcome>>

\* the model answers the request of branch i; the branch callback resumes
BranchReply ==
    /\ orchPc \in {"par_wait", "synth_wait", "returned", "failed"}
    /\ \E i \in 1..Len(branches) : \E reply \in SubReplies :
         /\ branches[i].state = "pending"
         /\ branches' = [branches EXCEPT
                           ![i] = branchSettle(tasks[i], subAgentExecute(reply), branches[i].req)]
         /\ settled' = Append(settled, i)
         /\ answered' = [answered EXCEPT ![branches[i].req] = reply]
    /\ UNCHANGED <<todoVars, loopVars, shareVars, aliasVars>>
    /\ UNCHANGED <<subAgents, registered, firstNames, orchPc, call, planText, plan, tasks, seqIndex, results,
                   requests, outcome>>

\* await Promise.all(promises) resumes: delegateParallel returns the results;
\* within orchestrate the synthesis request follows
ParResume ==
    /\ orchPc = "par_wait"
    /\ LET all == promiseAll(branches, settled)
       IN  /\ all.state # "pending"
           /\ IF all.state = "rejected"
              THEN /\ orchPc' = "failed"
                   /\ outcome' = Threw("branch_rejected", "execute")
                   /\ UNCHANGED <<results, requests, answered>>
              ELSE /\ results' = all.values
                   /\ IF call.api = "delegateParallel"
                      THEN /\ orchPc' = "returned"
                           /\ outcome' = Returned(EmptyText)
                           /\ UNCHANGED <<requests, answered>>
                      ELSE /\ orchPc' = "synth_wait"
                           /\ requests' = Append(requests, synthRequest(call.userRequest, all.values))
                           /\ answered' = Append(answered, NoReply)
                           /\ UNCHANGED outcome
    /\ UNCHANGED <<todoVars, loopVars, shareVars, aliasVars>>
    /\ UNCHANGED <<subAgents, registered, firstNames, call, planText, plan, tasks, branches, settled, seqIndex>>

\* orchestrate(userRequest) up to its first await: the planning request
CallOrchestrate ==
    /\ orchPc = "idle"
    /\ \E u \in UserRequests :
         /\ call' = [api |-> "orchestrate", userRequest |-> u]
         /\ requests' = Append(requests, planRequest(subAgents, u))
    /\ answered' = Append(answered, NoReply)
    /\ orchPc' = "planning"
    /\ UNCHANGED <<todoVars, loopVars, shareVars, aliasVars>>
    /\ UNCHANGED <<subAgents, registered, firstNames, planText, plan, tasks, branches, settled, seqIndex,
                   results, outcome>>

\* the planning reply arrives: parse it and start executing the plan
onPlanReply(replies) ==
    /\ orchPc = "planning"
    /\ \E reply \in replies :
         LET ans == [answered EXCEPT ![Len(requests)] = reply]
             text == firstText(reply.content)
             parsed == planOf(text)
         IN  IF ~reply.ok
             THEN /\ orchPc' = "failed"
                  /\ outcome' = Threw(reply.error, "plan")
                  /\ answered' = ans
                  /\ UNCHANGED <<planText, plan, tasks, branches, settled, seqIndex,
                                 results, requests>>
             ELSE IF ~parsed.ok
             THEN /\ orchPc' = "failed"
                  /\ outcome' = Threw("parse_error", "parse")
                  /\ planText' = text
                  /\ answered' = ans
                  /\ UNCHANGED <<plan, tasks, branches, settled, seqIndex, results, requests>>
             ELSE IF useParallel(parsed.value)
             THEN LET start == startParallel(subAgents, parsed.value.tasks, requests)
                  IN  /\ orchPc' = "par_wait"
                      /\ planText' = text
                      /\ plan' = parsed.value
                      /\ tasks' = parsed.value.tasks
                      /\ branches' = start.branches
                      /\ settled' = start.settled
                      /\ requests' = start.requests
                      /\ answered' = extendAnswered(ans, start.requests)
                      /\ UNCHANGED <<seqIndex, results, outcome>>
             ELSE LET step == seqStep(subAgents, parsed.value.tasks, 1, <<>>, requests,
                                      call.userRequest)
                  IN  /\ orchPc' = step.pc
                      /\ planText' = text
                      /\ plan' = parsed.value
                      /\ tasks' = parsed.value.tasks
                      /\ seqIndex' = step.seqIndex
                      /\ requests' = step.requests
                      /\ answered' = extendAnswered(ans, step.requests)
                      /\ outcome' = step.outcome
                      /\ UNCHANGED <<branches, settled, results>>
    /\ UNCHANGED <<todoVars, loopVars, shareVars, aliasVars>>
    /\ UNCHANGED <<subAgents, registered, firstNames, call>>

PlanReply == onPlanReply(PlanReplies)

\* the planning reply is one of the fenced and unfenced forms of a plan
PlanReplyFenced == onPlanReply(FormReplies)

\* the reply to the awaited step of the sequential branch arrives
SeqReply ==
    /\ orchPc = "seq_wait"
    /\ \E reply \in SubReplies :
         LET exec == subAgentExecute(reply)
             ans == [answered EXCEPT ![Len(requests)] = reply]
             res == Append(results, SubAgentResult(tasks[seqIndex].agentName, exec.text, ""))
             step == seqStep(subAgents, tasks, seqIndex + 1, res, requests, call.userRequest)
         IN  IF exec.threw
             THEN /\ orchPc' = "failed"
                  /\ outcome' = Threw(exec.error, "execute")
                  /\ answered' = ans
                  /\ UNCHANGED <<seqIndex, results, requests>>
             ELSE /\ orchPc' = step.pc
                  /\ seqIndex' = step.seqIndex
                  /\ results' = res
                  /\ requests' = step.requests
                  /\ answered' = extendAnswered(ans, step.requests)
                  /\ outcome' = step.outcome
    /\ UNCHANGED <<todoVars, loopVars, shareVars, aliasVars>>
    /\ UNCHANGED <<subAgents, registered, firstNames, call, planText, plan, tasks, branches, settled>>

\* the synthesis reply arrives: orchestrate returns its first text
SynthReply ==
    /\ orchPc = "synth_wait"
    /\ \E reply \in SynthReplies :
         /\ answered' = [answered EXCEPT ![Len(requests)] = reply]
         /\ IF reply.ok
            THEN /\ orchPc' = "returned"
                 /\ outcome' = Returned(firstText(reply.content))
            ELSE /\ orchPc' = "failed"
                 /\ outcome' = Threw(reply.error, "synth")
    /\ UNCHANGED <<todoVars, loopVars, shareVars, aliasVars>>
    /\ UNCHANGED <<subAgents, registered, firstNames, call, planText, plan, tasks, branches, settled, seqIndex,
                   results, requests>>

\* listSubAgents(): Array.from(this.subAgents.keys())
listSubAgents(m) == mapKeys(m)

\* the last call before the listings
callBefore == IF call.api = "listSubAgents" THEN call.after ELSE call

\* listSubAgents() called between registrations
ListSubAgents ==
    /\ orchPc = "idle"
    /\ call' = [api |-> "listSubAgents", names |-> listSubAgents(subAgents), after |-> callBefore]
    /\ UNCHANGED <<todoVars, loopVars, shareVars, aliasVars>>
    /\ UNCHANGED <<subAgents, registered, firstNames, orchPc, planText, plan, tasks, branches,
                   settled, seqIndex, results, requests, answered, outcome>>

\* delegateToSubAgent that looks the agent up after SubAgent.execute has
\* issued a request under the name
delegateToSubAgentLate(m, task, reqs) ==
    IF ~mapHas(m, task.agentName)
    THEN [pc |-> "failed",
          requests |-> Append(reqs, Request("sub", task.agentName, "", DefaultModel,
                                            <<UserTurn(task.prompt)>>)),
          outcome |-> Threw(NotFound, "execute")]
    ELSE [pc |-> "sub_wait", requests |-> Append(reqs, subRequest(m, task)),
          outcome |-> NoOutcome]

\* delegateToSubAgent(agentName, prompt) up to its await: the lookup, the
\* throw when nothing is registered under the name, else the request of
\* SubAgent.execute
delegateToSubAgent(m, task, reqs) ==
    IF ~mapHas(m, task.agentName)
    THEN [pc |-> "failed", requests |-> reqs, outcome |-> Threw(NotFound, "execute")]
    ELSE [pc |-> "sub_wait", requests |-> Append(reqs, subRequest(m, task)),
          outcome |-> NoOutcome]

\* delegateToSubAgent called directly
CallDelegateToSubAgent ==
    /\ orchPc = "idle"
    /\ \E task \in Tasks :
         LET start == delegateToSubAgent(subAgents, task, requests)
         IN  /\ call' = [api |-> "delegateToSubAgent", task |-> task]
             /\ orchPc' = start.pc
             /\ requests' = start.requests
             /\ answered' = extendAnswered(answered, start.requests)
             /\ outcome' = start.outcome
    /\ UNCHANGED <<todoVars, loopVars, shareVars, aliasVars>>
    /\ UNCHANGED <<subAgents, registered, firstNames, planText, plan, tasks, branches, settled,
                   seqIndex, results>>

\* the model answers the request of a direct delegateToSubAgent call
DelegateReply ==
    /\ orchPc = "sub_wait"
    /\ \E reply \in SubReplies :
         LET exec == subAgentExecute(reply)
         IN  /\ answered' = [answered EXCEPT ![Len(requests)] = reply]
             /\ IF exec.threw
                THEN /\ orchPc' = "failed"
                     /\ outcome' = Threw(exec.error, "execute")
                ELSE /\ orchPc' = "returned"
                     /\ outcome' = Returned(exec.text)
    /\ UNCHANGED <<todoVars, loopVars, shareVars, aliasVars>>
    /\ UNCHANGED <<subAgents, registered, firstNames, call, planText, plan, tasks, branches,
                   settled, seqIndex, results, requests>>

\* the registry used on its own: registrations, listings, one direct delegation
RegistryNext ==
    \/ RegisterSubAgent
    \/ ListSubAgents
    \/ CallDelegateToSubAgent
    \/ DelegateReply

OrchNext ==
    \/ RegisterSubAgent
    \/ CallDelegateParallel
    \/ BranchReply
    \/ ParResume
    \/ CallOrchestrate
    \/ PlanReply
    \/ SeqReply
    \/ SynthReply

TodoIdle ==
    /\ todoFile = MissingFile
    /\ diskOk = TRUE
    /\ todos = <<>>
    /\ lastCall = [op |-> "new", candidate |-> <<>>, error |-> NoError, before |-> <<>>]



\* ------------------------------------------------------------------------
\* SandboxedFileSystem (src/src/sandboxed-agent.ts, 14-231)
\* ------------------------------------------------------------------------

\* Paths are sequences of segments; the working directory is /tmp/claude-workspace
workDir == <<"tmp", "claude-workspace">>

allowedExtensions == {".txt", ".json", ".md", ".csv"}

RECURSIVE normalizeFrom(_, _, _)
normalizeFrom(segs, i, acc) ==
    IF i > Len(segs) THEN acc
    ELSE IF segs[i] = "." THEN normalizeFrom(segs, i + 1, acc)
    ELSE IF segs[i] = ".."
         THEN normalizeFrom(segs, i + 1, IF acc = <<>> THEN acc ELSE SubSeq(acc, 1, Len(acc) - 1))
         ELSE normalizeFrom(segs, i + 1, Append(acc, segs[i]))

\* path.normalize on an absolute path
normalize(segs) == normalizeFrom(segs, 1, <<>>)

\* resolvePath: path.resolve(this.workDir, relativePath)
resolvePath(rel) == normalize(workDir \o rel)

\* a.startsWith(b) on segment names
segStartsWith(a, b) == a = b \/ (a = "claude-workspace-evil" /\ b = "claude-workspace")

\* String.prototype.startsWith on the path strings
pathStartsWith(p, w) ==
    /\ Len(p) >= Len(w)
    /\ \A i \in 1..(Len(w) - 1) : p[i] = w[i]
    /\ Len(w) > 0 => segStartsWith(p[Len(w)], w[Len(w)])

\* isPathSafe: the normalized path starts with the normalized working directory
isPathSafe(full) == pathStartsWith(normalize(full), normalize(workDir))

\* path.extname(...).toLowerCase() of the last segment
extname(full) ==
    IF full = <<>> THEN ""
    ELSE LET name == full[Len(full)]
         IN  IF name \in {"hello.txt", "x.txt"} THEN ".txt" ELSE ""

isExtensionAllowed(full) == extname(full) \in allowedExtensions

\* the directories of the model's file system
Directories == { <<>>, <<"tmp">>, <<"etc">>, workDir, <<"tmp", "claude-workspace-evil">> }

NoFile == "<none>"

\* the files the tool inputs can name
FilePaths == { <<"tmp", "claude-workspace", "hello.txt">>,
               <<"tmp", "claude-workspace-evil", "x.txt">>,
               <<"etc", "passwd">> }

InitialFiles ==
    [p \in FilePaths |-> IF p = <<"tmp", "claude-workspace", "hello.txt">> THEN NoFile ELSE "c0"]

fsExists(files, full) == full \in Directories \/ (full \in DOMAIN files /\ files[full] # NoFile)
fsIsFile(files, full) == full \in DOMAIN files /\ files[full] # NoFile

\* what a file operation comes to: the object it returns, or (threw) the
\* error a call inside its try block raised
FsResult(success, content, list, error) ==
    [success |-> success, content |-> content, files |-> list, error |-> error,
     threw |-> FALSE]

\* an fs call raising inside the try block
fsThrown(error) == [FsResult(FALSE, "", {}, error) EXCEPT !.threw = TRUE]

\* the operation without its catch block: the error leaves the method
catchFsRethrow(r) == r

\* the catch block of every file operation: { success: false, error: errorMessage }
catchFs(r) == IF r.threw THEN FsResult(FALSE, "", {}, r.error) ELSE r

securityError == "security_error"

\* the names fs.readdirSync returns
readdir(files, full) ==
    { p[Len(p)] : p \in { q \in DOMAIN files :
                            files[q] # NoFile /\ SubSeq(q, 1, Len(q) - 1) = full } }
    \cup { d[Len(d)] : d \in { e \in Directories : e # <<>> /\ SubSeq(e, 1, Len(e) - 1) = full } }

\* readFile(relativePath)
readFile(files, rel) ==
    LET full == resolvePath(rel)
    IN  catchFs(
          IF ~isPathSafe(full) THEN FsResult(FALSE, "", {}, securityError)
          ELSE IF ~fsExists(files, full) THEN FsResult(FALSE, "", {}, "no_such_file")
          ELSE IF ~fsIsFile(files, full) THEN FsResult(FALSE, "", {}, "not_a_file")
          ELSE FsResult(TRUE, files[full], {}, ""))

\* writeFile(relativePath, content): the result and the files afterwards
writeFile(files, rel, content) ==
    LET full == resolvePath(rel)
    IN  IF ~isPathSafe(full)
        THEN [result |-> FsResult(FALSE, "", {}, securityError), files |-> files]
        ELSE IF ~isExtensionAllowed(full)
        THEN [result |-> FsResult(FALSE, "", {}, "extension_not_allowed"), files |-> files]
        ELSE IF full \notin DOMAIN files
        THEN [result |-> catchFs(fsThrown("EISDIR")), files |-> files]
        ELSE [result |-> FsResult(TRUE, "", {}, ""), files |-> [files EXCEPT ![full] = content]]

\* listFiles(relativePath)
listFiles(files, rel) ==
    LET full == resolvePath(rel)
    IN  catchFs(
          IF ~isPathSafe(full) THEN FsResult(FALSE, "", {}, securityError)
          ELSE IF ~fsExists(files, full) THEN FsResult(FALSE, "", {}, "no_such_directory")
          ELSE IF full \notin Directories THEN FsResult(FALSE, "", {}, "not_a_directory")
          ELSE FsResult(TRUE, "", readdir(files, full), ""))

\* deleteFile(relativePath): the result and the files afterwards
deleteFile(files, rel) ==
    LET full == resolvePath(rel)
    IN  IF ~isPathSafe(full)
        THEN [result |-> FsResult(FALSE, "", {}, securityError), files |-> files]
        ELSE IF ~fsExists(files, full)
        THEN [result |-> FsResult(FALSE, "", {}, "no_such_file"), files |-> files]
        ELSE IF ~fsIsFile(files, full)
        THEN [result |-> catchFs(fsThrown("EISDIR")), files |-> files]
        ELSE [result |-> FsResult(TRUE, "", {}, ""), files |-> [files EXCEPT ![full] = NoFile]]

\* the relative paths the methods are called with: in the working directory,
\* above it, and in the directory beside it whose name begins with its name
RelativePaths ==
    { <<"hello.txt">>, <<".">>, <<"..", "..", "etc", "passwd">>,
      <<"..", "claude-workspace-evil", "x.txt">>, <<"..", "claude-workspace-evil">> }

FsCall(op, rel, result, before) == [op |-> op, path |-> rel, result |-> result, before |-> before]
NoFsCall == FsCall("none", <<>>, FsResult(FALSE, "", {}, ""), InitialFiles)

\* the variables of the tool loops, which the file system does not touch
fsFrame == <<loopKind, modelMode, messages, response, iterations, loopPc, finalText>>

ReadFile ==
    /\ \E rel \in RelativePaths :
         fsCall' = FsCall("readFile", rel, readFile(fsFiles, rel), fsFiles)
    /\ UNCHANGED <<fsFiles, fsFrame, todoVars, orchVars, shareVars, aliasVars>>

WriteFile ==
    /\ \E rel \in RelativePaths :
         LET r == writeFile(fsFiles, rel, "c1")
         IN  /\ fsCall' = FsCall("writeFile", rel, r.result, fsFiles)
             /\ fsFiles' = r.files
    /\ UNCHANGED <<fsFrame, todoVars, orchVars, shareVars, aliasVars>>

ListFiles ==
    /\ \E rel \in RelativePaths :
         fsCall' = FsCall("listFiles", rel, listFiles(fsFiles, rel), fsFiles)
    /\ UNCHANGED <<fsFiles, fsFrame, todoVars, orchVars, shareVars, aliasVars>>

DeleteFile ==
    /\ \E rel \in RelativePaths :
         LET r == deleteFile(fsFiles, rel)
         IN  /\ fsCall' = FsCall("deleteFile", rel, r.result, fsFiles)
             /\ fsFiles' = r.files
    /\ UNCHANGED <<fsFrame, todoVars, orchVars, shareVars, aliasVars>>

FsNext == ReadFile \/ WriteFile \/ ListFiles \/ DeleteFile

\* ------------------------------------------------------------------------
\* Tool-use loops: content blocks, tool inputs and model responses
\* ------------------------------------------------------------------------

\* a tool input; hasTodos tells an input with a todos array from one without
NoInput == [todos |-> <<>>, hasTodos |-> FALSE, path |-> <<>>, content |-> "", location |-> ""]

TodoInput(list) == [NoInput EXCEPT !.todos = list, !.hasTodos = TRUE]
PathInput(rel) == [NoInput EXCEPT !.path = rel]
WriteInput(rel, content) == [NoInput EXCEPT !.path = rel, !.content = content]
LocationInput(loc) == [NoInput EXCEPT !.location = loc]

\* blocks of an assistant turn; the id of a tool_use block is set on arrival
LoopText(text) == [type |-> "text", text |-> text, id |-> 0, name |-> "", input |-> NoInput]
ToolUse(name, input) ==
    [type |-> "tool_use", text |-> EmptyText, id |-> 0, name |-> name, input |-> input]

\* a tool_result block; none of the loops sets is_error
ToolResult(id, content) ==
    [type |-> "tool_result", tool_use_id |-> id, content |-> content, is_error |-> FALSE]

\* every turn pushed with the role of the first one
TurnAsUser(role, content) == [role |-> "user", content |-> content]

Turn(role, content) == [role |-> role, content |-> content]

Response(stop_reason, content) == [stop_reason |-> stop_reason, content |-> content]
NoResponse == Response("none", <<>>)

\* the blocks the model answers with, per loop
TodosBlocks ==
    { LoopText(<<Tok("t1")>>),
      ToolUse("todo_write", TodoInput(<<Todo("a", "in_progress", "A")>>)),
      ToolUse("todo_write", TodoInput(<<Todo("a", "completed", "A"), Todo("a", "pending", "A")>>)),
      ToolUse("todo_write", TodoInput(<<Todo("a", "in_progress", "A"), Todo("a", "in_progress", "A")>>)),
      ToolUse("todo_write", NoInput),
      ToolUse("read_file", PathInput(<<"hello.txt">>)) }

SandboxBlocks ==
    { LoopText(<<Tok("t1")>>),
      ToolUse("write_file", WriteInput(<<"hello.txt">>, "c1")),
      ToolUse("read_file", PathInput(<<"hello.txt">>)),
      ToolUse("read_file", PathInput(<<"..", "..", "etc", "passwd">>)),
      ToolUse("list_files", PathInput(<<".">>)),
      ToolUse("delete_file", PathInput(<<"hello.txt">>)),
      ToolUse("delete_file", PathInput(<<".">>)),
      ToolUse("todo_write", TodoInput(<<Todo("a", "pending", "A")>>)) }

ExampleBlocks ==
    { LoopText(<<Tok("t1")>>),
      ToolUse("get_weather", LocationInput("Tokyo")),
      ToolUse("get_weather", LocationInput("Paris")),
      ToolUse("read_file", PathInput(<<"hello.txt">>)) }

BlocksOf(kind) ==
    IF kind = "todos" THEN TodosBlocks
    ELSE IF kind = "sandbox" THEN SandboxBlocks
    ELSE ExampleBlocks

StopReasons == {"tool_use", "end_turn"}

\* the responses of a model that varies its answers, of at most n blocks
VariedResponses(kind, n) ==
    { Response(sr, c) : sr \in StopReasons, c \in SeqsUpTo(BlocksOf(kind), n) }

\* the response of a model that asks for the same tool again and again
StubbornResponse(kind) ==
    Response("tool_use",
             <<IF kind = "todos"
               THEN ToolUse("todo_write", TodoInput(<<Todo("a", "in_progress", "A")>>))
               ELSE IF kind = "sandbox" THEN ToolUse("read_file", PathInput(<<"hello.txt">>))
               ELSE ToolUse("get_weather", LocationInput("Tokyo"))>>)

\* the response of a model that says a text before asking for the same tool
\* again and again
ChattyResponse(kind) ==
    Response("tool_use", <<LoopText(<<Tok("t1")>>)>> \o StubbornResponse(kind).content)

\* the API gives every tool_use block of a response its own id
withIds(content, round) ==
    [j \in 1..Len(content) |->
        IF content[j].type = "tool_use" THEN [content[j] EXCEPT !.id = 10 * round + j]
        ELSE content[j]]

\* response.content.filter(block => block.type === 'tool_use')
toolUsesOf(content) == SelectSeq(content, LAMBDA b : b.type = "tool_use")

\* response.content.find(block => block.type === 'tool_use'), as a list of
\* at most one block
firstToolUse(content) ==
    IF toolUsesOf(content) = <<>> THEN <<>> ELSE <<toolUsesOf(content)[1]>>

\* ------------------------------------------------------------------------
\* runAgentWithTodos (src/unnamed/part_000)
\* ------------------------------------------------------------------------

\* update(todos) as a function of the manager's state
updateCore(store, file, writable, candidate) ==
    LET err == validate(candidate)
        stored == storeAfterUpdate(store, candidate, err)
    IN  [ todos |-> stored,
          todoFile |-> IF err.kind = "ok" THEN save(file, stored, writable) ELSE file,
          error |-> err ]

NoStats == [total |-> 0, pending |-> 0, inProgress |-> 0, completed |-> 0, progress |-> 0]

\* the strings executeTodoWrite returns: the success text with the
\* statistics, and the error text with the message of the error
SuccessText(stats) == [ok |-> TRUE, stats |-> stats, error |-> NoError]
ErrorText(err) == [ok |-> FALSE, stats |-> NoStats, error |-> err]
NoText == [ok |-> FALSE, stats |-> NoStats, error |-> NoError]

\* todos.length on an input without a todos array
TypeError == ValidationError("type_error", 0, 0)

\* the try block of executeTodoWrite: update, getStats and the success text,
\* or the error thrown on the way
todoWriteTry(store, file, writable, input) ==
    IF ~input.hasTodos
    THEN [todos |-> store, todoFile |-> file, error |-> TypeError, threw |-> TRUE,
          text |-> NoText]
    ELSE LET r == updateCore(store, file, writable, input.todos)
         IN  [ todos |-> r.todos,
               todoFile |-> r.todoFile,
               error |-> r.error,
               threw |-> r.error.kind # "ok",
               text |-> IF r.error.kind = "ok" THEN SuccessText(getStats(r.todos))
                        ELSE NoText ]

\* executeTodoWrite without its catch block
catchTodoWriteRethrow(t) == t

\* the catch block of executeTodoWrite: the error becomes the returned text
catchTodoWrite(t) == IF t.threw THEN [t EXCEPT !.threw = FALSE, !.text = ErrorText(t.error)] ELSE t

executeTodoWrite(store, file, writable, input) ==
    catchTodoWrite(todoWriteTry(store, file, writable, input))

maxIterationsTodos == 30

\* the loop condition letting one more round through
underCapInclusive(count, cap) == count <= cap

\* the loop condition with the cap left out
underCapAlways(count, cap) == TRUE

\* iterations < maxIterations, the cap in the condition of both while loops
underCap(count, cap) == count < cap

\* a loop body that runs toolUses[0] alone, as SandboxedClaudeAgent.run does
runTodoToolsFirstOnly(toolUses, k, writable, st) ==
    IF toolUses = <<>> \/ toolUses[1].name # "todo_write" THEN st
    ELSE LET r == executeTodoWrite(st.todos, st.todoFile, writable, toolUses[1].input)
         IN  [ todos |-> r.todos,
               todoFile |-> r.todoFile,
               lastCall |-> [op |-> "update", candidate |-> toolUses[1].input.todos,
                             error |-> r.error, before |-> getAll(st.todos)],
               threw |-> r.threw,
               toolResults |-> IF r.threw THEN st.toolResults
                               ELSE Append(st.toolResults, ToolResult(toolUses[1].id, r.text)) ]

\* the for loop over toolUses (lines 131-142) from position k on, st holding
\* the manager's state and the tool results pushed so far
\* an error leaving executeTodoWrite leaves the loop and runAgentWithTodos
RECURSIVE runTodoTools(_, _, _, _)
runTodoTools(toolUses, k, writable, st) ==
    IF k > Len(toolUses) \/ st.threw THEN st
    ELSE IF toolUses[k].name = "todo_write"
         THEN LET r == executeTodoWrite(st.todos, st.todoFile, writable, toolUses[k].input)
              IN  runTodoTools(toolUses, k + 1, writable,
                     [ todos |-> r.todos,
                       todoFile |-> r.todoFile,
                       lastCall |-> [op |-> "update", candidate |-> toolUses[k].input.todos,
                                     error |-> r.error, before |-> getAll(st.todos)],
                       threw |-> r.threw,
                       toolResults |-> IF r.threw THEN st.toolResults
                                       ELSE Append(st.toolResults,
                                                   ToolResult(toolUses[k].id, r.text)) ])
         ELSE runTodoTools(toolUses, k + 1, writable, st)

\* the tool rounds a varied model has been through
round == (Len(messages) - 1) \div 2

\* the content blocks of the assistant turns from position i on
RECURSIVE blocksFrom(_, _)
blocksFrom(history, i) ==
    IF i > Len(history) THEN 0
    ELSE (IF history[i].role = "assistant" THEN Len(history[i].content) ELSE 0)
         + blocksFrom(history, i + 1)

\* the blocks a varying model may still send
blocksLeft == MaxBlocks - blocksFrom(messages, 1)

\* the responses the model can give to the request in flight
ResponsesNow ==
    IF modelMode = "stubborn" THEN { StubbornResponse(loopKind) }
    ELSE IF modelMode = "chatty" THEN { ChattyResponse(loopKind) }
    ELSE IF round < MaxRounds THEN VariedResponses(loopKind, blocksLeft)
    ELSE { Response("end_turn", c) :
             c \in SeqsUpTo(BlocksOf(loopKind), IF blocksLeft > 0 THEN 1 ELSE 0) }

NoFinal == [present |-> FALSE, text |-> EmptyText]
FinalText(text) == [present |-> TRUE, text |-> text]

\* response.content.find(block => block.type === 'text'), printed if present
finalTextOf(content) ==
    IF \E i \in 1..Len(content) : content[i].type = "text"
    THEN FinalText(firstText(content))
    ELSE NoFinal

\* finalText?.text || '応答がありません'
Placeholder == <<Tok("no_response")>>
resultOf(content) ==
    IF firstText(content) = EmptyText THEN FinalText(Placeholder)
    ELSE FinalText(firstText(content))

\* a response arrives in runAgentWithTodos: one pass of the while loop up to
\* the next request, or the code after the loop
TodosReply ==
    /\ loopKind = "todos"
    /\ loopPc = "awaiting"
    /\ \E resp \in ResponsesNow :
         LET content == withIds(resp.content, round + 1)
         IN  /\ response' = Response(resp.stop_reason, content)
             /\ IF resp.stop_reason = "tool_use" /\ underCap(iterations, maxIterationsTodos)
                THEN LET st == runTodoTools(toolUsesOf(content), 1, diskOk,
                                     [todos |-> todos, todoFile |-> todoFile,
                                      lastCall |-> lastCall, threw |-> FALSE,
                                      toolResults |-> <<>>])
                     IN  /\ iterations' = iterations + 1
                         /\ messages' = IF st.threw THEN Append(messages, Turn("assistant", content))
                                        ELSE messages \o <<Turn("assistant", content),
                                                           Turn("user", st.toolResults)>>
                         /\ loopPc' = IF st.threw THEN "failed" ELSE loopPc
                         /\ todos' = st.todos
                         /\ todoFile' = st.todoFile
                         /\ lastCall' = st.lastCall
                         /\ UNCHANGED finalText
                ELSE /\ loopPc' = "done"
                     /\ finalText' = finalTextOf(content)
                     /\ UNCHANGED <<iterations, messages, todos, todoFile, lastCall>>
    /\ UNCHANGED <<loopKind, modelMode, fsFiles, fsCall, diskOk, orchVars, shareVars, aliasVars>>

\* ------------------------------------------------------------------------
\* SandboxedClaudeAgent (src/src/sandboxed-agent.ts, 238-424)
\* ------------------------------------------------------------------------

maxIterationsSandbox == 10

\* executeTool(toolName, input): the result and the files afterwards
executeTool(files, toolName, input) ==
    IF toolName = "read_file" THEN [result |-> readFile(files, input.path), files |-> files]
    ELSE IF toolName = "write_file" THEN writeFile(files, input.path, input.content)
    ELSE IF toolName = "list_files"
         THEN [result |-> listFiles(files, IF input.path = <<>> THEN <<".">> ELSE input.path),
               files |-> files]
    ELSE IF toolName = "delete_file" THEN deleteFile(files, input.path)
    ELSE [result |-> FsResult(FALSE, "", {}, "unknown_tool"), files |-> files]

\* a response arrives in SandboxedClaudeAgent.run
SandboxReply ==
    /\ loopKind = "sandbox"
    /\ loopPc = "awaiting"
    /\ \E resp \in ResponsesNow :
         LET content == withIds(resp.content, round + 1)
             found == firstToolUse(content)
         IN  /\ response' = Response(resp.stop_reason, content)
             /\ IF resp.stop_reason = "tool_use" /\ underCap(iterations, maxIterationsSandbox)
                THEN /\ iterations' = iterations + 1
                     /\ IF found = <<>>
                        THEN /\ loopPc' = "done"
                             /\ finalText' = resultOf(content)
                             /\ UNCHANGED <<messages, fsFiles>>
                        ELSE LET toolUse == found[1]
                                 r == executeTool(fsFiles, toolUse.name, toolUse.input)
                             IN  IF r.result.threw
                                 THEN /\ loopPc' = "failed"
                                      /\ UNCHANGED <<messages, fsFiles, finalText>>
                                 ELSE /\ fsFiles' = r.files
                                      /\ messages' = messages \o
                                            <<Turn("assistant", content),
                                              Turn("user", <<ToolResult(toolUse.id, r.result)>>)>>
                                      /\ UNCHANGED <<loopPc, finalText>>
                ELSE /\ loopPc' = "done"
                     /\ finalText' = resultOf(content)
                     /\ UNCHANGED <<iterations, messages, fsFiles>>
    /\ UNCHANGED <<loopKind, modelMode, fsCall, todoVars, orchVars, shareVars, aliasVars>>

\* ------------------------------------------------------------------------
\* toolUseExample (src/src/agent-example.ts)
\* ------------------------------------------------------------------------

WeatherInfo(location, temperature, conditions) ==
    [defined |-> TRUE, location |-> location, temperature |-> temperature,
     conditions |-> conditions]

\* toolResult left undefined: JSON.stringify(undefined) is undefined
UndefinedResult == [defined |-> FALSE, location |-> "", temperature |-> 0, conditions |-> ""]

\* getWeather(location): the mock data
getWeather(location) ==
    IF location = "Tokyo" THEN WeatherInfo("Tokyo", 22, "sunny")
    ELSE WeatherInfo(location, 20, "unknown")

\* a response arrives in toolUseExample; the loop has no counter, and a
\* model that asks for the tool every time is followed for
\* MaxExampleRounds rounds
ExampleReply ==
    /\ loopKind = "example"
    /\ loopPc = "awaiting"
    /\ modelMode = "stubborn" => round < MaxExampleRounds
    /\ \E resp \in ResponsesNow :
         LET content == withIds(resp.content, round + 1)
             found == firstToolUse(content)
         IN  /\ response' = Response(resp.stop_reason, content)
             /\ IF resp.stop_reason = "tool_use" /\ found # <<>>
                THEN LET toolUse == found[1]
                         toolResult == IF toolUse.name = "get_weather"
                                       THEN getWeather(toolUse.input.location)
                                       ELSE UndefinedResult
                     IN  /\ messages' = messages \o
                               <<Turn("assistant", content),
                                 Turn("user", <<ToolResult(toolUse.id, toolResult)>>)>>
                         /\ UNCHANGED <<loopPc, finalText>>
                ELSE /\ loopPc' = "done"
                     /\ finalText' = finalTextOf(content)
                     /\ UNCHANGED messages
    /\ UNCHANGED <<loopKind, modelMode, iterations, fsFiles, fsCall, todoVars, orchVars, shareVars,
                   aliasVars>>

LoopIdle ==
    /\ loopKind = "none"
    /\ modelMode = "varied"
    /\ messages = <<>>
    /\ response = NoResponse
    /\ iterations = 0
    /\ loopPc = "idle"
    /\ finalText = NoFinal
    /\ fsFiles = InitialFiles
    /\ fsCall = NoFsCall

\* the state when the first request of a loop is in flight
LoopInit ==
    /\ loopKind \in {"todos", "sandbox", "example"}
    /\ modelMode \in (IF loopKind = "example" THEN {"varied", "stubborn"}
                      ELSE {"varied", "stubborn", "chatty"})
    /\ messages = <<Turn("user", "u1")>>
    /\ response = NoResponse
    /\ iterations = 0
    /\ loopPc = "awaiting"
    /\ finalText = NoFinal
    /\ fsFiles = InitialFiles
    /\ fsCall = NoFsCall

LoopNext == TodosReply \/ SandboxReply \/ ExampleReply

\* ------------------------------------------------------------------------
\* Agent loops sharing one TodoManager: executeTodoWrite(input, manager)
\* called from the callbacks of several loops of one process
\* ------------------------------------------------------------------------

AgentIds == 1..MaxAgents

\* the lists the loops send to the shared manager
SharedCandidates ==
    SeqsUpTo({ Todo("a", "pending", "A"), Todo("a", "in_progress", "A"),
               Todo("", "in_progress", "A") }, MaxTodos)

\* a callback being started while another one is inside update
threadFreeAlways == TRUE

\* update and executeTodoWrite are synchronous and the code after an await
\* is a callback of the event loop: it starts when no other callback runs
threadFree == running = 0

ShareIdle ==
    /\ agentPc = [p \in AgentIds |-> "idle"]
    /\ agentCandidate = [p \in AgentIds |-> <<>>]
    /\ agentRounds = [p \in AgentIds |-> 0]
    /\ running = 0

\* every loop has sent its first request
ShareInit ==
    /\ agentPc = [p \in AgentIds |-> "awaiting"]
    /\ agentCandidate = [p \in AgentIds |-> <<>>]
    /\ agentRounds = [p \in AgentIds |-> 0]
    /\ running = 0

\* the response of loop p asks for todo_write: its callback enters update
ShareToolReply ==
    /\ threadFree
    /\ \E p \in AgentIds : \E candidate \in SharedCandidates :
         /\ agentPc[p] = "awaiting"
         /\ agentRounds[p] < MaxRounds
         /\ agentPc' = [agentPc EXCEPT ![p] = "validate"]
         /\ agentCandidate' = [agentCandidate EXCEPT ![p] = candidate]
         /\ agentRounds' = [agentRounds EXCEPT ![p] = @ + 1]
         /\ running' = p
    /\ UNCHANGED <<todoVars, orchVars, loopVars, aliasVars>>

\* update, line 91: validate throws and executeTodoWrite returns the error
\* text, the loop sends its next request; or validate passes
ShareValidate ==
    /\ \E p \in AgentIds :
         /\ agentPc[p] = "validate"
         /\ IF validate(agentCandidate[p]).kind = "ok"
            THEN /\ agentPc' = [agentPc EXCEPT ![p] = "assign"]
                 /\ UNCHANGED <<agentCandidate, running>>
            ELSE /\ agentPc' = [agentPc EXCEPT ![p] = "awaiting"]
                 /\ agentCandidate' = [agentCandidate EXCEPT ![p] = <<>>]
                 /\ running' = 0
    /\ UNCHANGED <<todoVars, orchVars, loopVars, aliasVars, agentRounds>>

\* update, lines 92-94: the list is replaced and saved, executeTodoWrite
\* returns the success text and the loop sends its next request
ShareAssign ==
    /\ \E p \in AgentIds :
         /\ agentPc[p] = "assign"
         /\ todos' = agentCandidate[p]
         /\ todoFile' = save(todoFile, agentCandidate[p], diskOk)
         /\ agentPc' = [agentPc EXCEPT ![p] = "awaiting"]
         /\ agentCandidate' = [agentCandidate EXCEPT ![p] = <<>>]
         /\ running' = 0
    /\ UNCHANGED <<diskOk, lastCall, orchVars, loopVars, aliasVars, agentRounds>>

\* the response of loop p asks for no tool: the loop ends
ShareFinalReply ==
    /\ threadFree
    /\ \E p \in AgentIds :
         /\ agentPc[p] = "awaiting"
         /\ agentPc' = [agentPc EXCEPT ![p] = "done"]
    /\ UNCHANGED <<todoVars, orchVars, loopVars, aliasVars, agentCandidate, agentRounds, running>>

ShareNext == ShareToolReply \/ ShareValidate \/ ShareAssign \/ ShareFinalReply

\* ------------------------------------------------------------------------
\* A caller of the TodoManager and the arrays and tasks it shares with it
\* ------------------------------------------------------------------------

\* the lists the caller passes to update
AliasCandidates ==
    SeqsUpTo({ Todo("a", "pending", "A"), Todo("a", "in_progress", "A") }, MaxTodos)

\* no entry of an array of n tasks is an object of the store
noneShared(n) == [i \in 1..n |-> 0]

\* the caller's changes to an array: push, pop, reverse
ArrayOps == {"push", "pop", "reverse"}

PushedTodo == Todo("a", "in_progress", "A")

applyArrayOp(op, arr, elem) ==
    IF op = "push" THEN Append(arr, elem)
    ELSE IF op = "pop" THEN SubSeq(arr, 1, Len(arr) - 1)
    ELSE [i \in 1..Len(arr) |-> arr[Len(arr) + 1 - i]]

\* the caller's assignments to a field of a task
FieldWrites == { [field |-> "status", value |-> "completed"] }

setField(t, w) ==
    IF w.field = "status" THEN [t EXCEPT !.status = w.value]
    ELSE [t EXCEPT !.content = w.value]

\* getInProgress(): the first in_progress task, or null
NoTodo == Todo("", "", "")
getInProgress(list) ==
    IF filterByStatus(list, "in_progress") = <<>> THEN NoTodo
    ELSE filterByStatus(list, "in_progress")[1]

AliasIdle ==
    /\ held = <<>>
    /\ heldFrom = "none"
    /\ sharedArray = FALSE
    /\ sharedTask = <<>>
    /\ callerStep = "none"
    /\ arrays = <<>>
    /\ builders = <<>>
    /\ built = <<>>
    /\ builderCall = [op |-> "none", builder |-> 0]

\* the caller builds a list and calls update(list), the first thing it
\* does: line 92 stores the caller's array itself
AliasUpdate ==
    /\ UNCHANGED builderVars
    /\ heldFrom = "none"
    /\ \E candidate \in AliasCandidates :
         LET ok == validate(candidate).kind = "ok"
         IN  /\ update(candidate)
             /\ held' = candidate
             /\ heldFrom' = "update"
             /\ sharedArray' = ok
             /\ sharedTask' = IF ok THEN Indices(Len(candidate)) ELSE noneShared(Len(candidate))
    /\ callerStep' = "update"

\* the caller calls getAll(): a new array holding the store's task objects
AliasGetAll ==
    /\ UNCHANGED builderVars
    /\ held' = getAll(todos)
    /\ heldFrom' = "getAll"
    /\ sharedArray' = FALSE
    /\ sharedTask' = Indices(Len(todos))
    /\ callerStep' = "getAll"
    /\ UNCHANGED <<todoVars, orchVars, loopVars, shareVars>>

\* the caller pushes to, pops from or reverses the array it holds
MutateArray ==
    /\ UNCHANGED builderVars
    /\ heldFrom # "none"
    /\ \E op \in ArrayOps :
         LET changed == applyArrayOp(op, held, PushedTodo)
         IN  /\ op = "push" => Len(held) < MaxTodos
             /\ op = "pop" => Len(held) > 0
             /\ op = "reverse" => Len(held) > 1
             /\ held' = changed
             /\ todos' = IF sharedArray THEN changed ELSE todos
             /\ sharedTask' = IF sharedArray THEN Indices(Len(changed))
                              ELSE applyArrayOp(op, sharedTask, 0)
    /\ callerStep' = "mutateArray"
    /\ UNCHANGED <<todoFile, diskOk, lastCall, orchVars, loopVars, shareVars, heldFrom,
                   sharedArray>>

\* the caller assigns to a field of a task of the array it holds
MutateField ==
    /\ UNCHANGED builderVars
    /\ heldFrom # "none"
    /\ \E k \in 1..Len(held) : \E w \in FieldWrites :
         /\ held' = [held EXCEPT ![k] = setField(@, w)]
         /\ todos' = IF sharedTask[k] # 0
                      THEN [todos EXCEPT ![sharedTask[k]] = setField(@, w)]
                      ELSE todos
    /\ callerStep' = "mutateField"
    /\ UNCHANGED <<todoFile, diskOk, lastCall, orchVars, loopVars, shareVars, heldFrom,
                   sharedArray, sharedTask>>

\* ------------------------------------------------------------------------
\* AgentQueryBuilder (src/src/todo-manager.ts, 1116-1308)
\* ------------------------------------------------------------------------

\* clone(): new AgentQueryBuilder({ ...this.query }); the spread copies the
\* fields of the query, the messages field being a reference to the array
cloneQuery(arr, query) == [arrays |-> arr, query |-> query]

\* the messages a builder or a built query holds
messagesAt(arr, ref) == arr[ref]

builderFrame ==
    <<held, heldFrom, sharedArray, sharedTask, callerStep, todoVars, orchVars, loopVars, shareVars>>

\* new AgentQueryBuilder(): messages: [] allocates an array
NewBuilder ==
    /\ Len(builders) < MaxBuilders
    /\ arrays' = Append(arrays, <<>>)
    /\ builders' = Append(builders, [messages |-> Len(arrays) + 1, from |-> 0])
    /\ builderCall' = [op |-> "new", builder |-> Len(builders) + 1]
    /\ UNCHANGED <<built, builderFrame>>

\* builder.clone()
CloneBuilder ==
    /\ Len(builders) < MaxBuilders
    /\ \E b \in 1..Len(builders) :
         LET copy == cloneQuery(arrays, builders[b])
         IN  /\ arrays' = copy.arrays
             /\ builders' = Append(builders, [copy.query EXCEPT !.from = b])
             /\ builderCall' = [op |-> "clone", builder |-> b]
    /\ UNCHANGED <<built, builderFrame>>

\* builder.addMessage(role, content): push on this.query.messages
AddMessage ==
    /\ \E b \in 1..Len(builders) : \E text \in {"m1", "m2"} :
         /\ Len(arrays[builders[b].messages]) < MaxMessages
         /\ arrays' = [arrays EXCEPT ![builders[b].messages] = Append(@, UserTurn(text))]
         /\ builderCall' = [op |-> "addMessage", builder |-> b]
    /\ UNCHANGED <<builders, built, builderFrame>>

\* builder.build(): throws without messages, else params.messages is this.query.messages
Build ==
    /\ Len(built) < MaxQueries
    /\ \E b \in 1..Len(builders) :
         /\ built' = IF Len(arrays[builders[b].messages]) = 0 THEN built
                      ELSE Append(built, builders[b].messages)
         /\ builderCall' = [op |-> "build", builder |-> b]
    /\ UNCHANGED <<arrays, builders, builderFrame>>

BuilderNext == NewBuilder \/ CloneBuilder \/ AddMessage \/ Build

AliasNext == AliasUpdate \/ AliasGetAll \/ MutateArray \/ MutateField

vars == <<todoVars, orchVars, loopVars, shareVars, aliasVars>>

InitTodo == TodoInit /\ OrchIdle /\ LoopIdle /\ ShareIdle /\ AliasIdle

InitShare == ShareInit /\ TodoInit /\ OrchIdle /\ LoopIdle /\ AliasIdle

InitAlias == AliasIdle /\ TodoInit /\ OrchIdle /\ LoopIdle /\ ShareIdle

SpecAlias == InitAlias /\ [][AliasNext]_vars

InitBuilder == AliasIdle /\ TodoIdle /\ OrchIdle /\ LoopIdle /\ ShareIdle

SpecBuilder == InitBuilder /\ [][BuilderNext]_vars

SpecShare == InitShare /\ [][ShareNext]_vars

SpecTodo == InitTodo /\ [][TodoNext]_vars

InitAnyFile == TodoInitAnyFile /\ OrchIdle /\ LoopIdle /\ ShareIdle /\ AliasIdle

SpecAnyFile == InitAnyFile /\ [][TodoNext]_vars

InitStats == StatsInit /\ OrchIdle /\ LoopIdle /\ ShareIdle /\ AliasIdle

SpecStats == InitStats /\ [][StatsNext]_vars

InitOrch == OrchIdle /\ TodoIdle /\ LoopIdle /\ ShareIdle /\ AliasIdle

SpecOrch == InitOrch /\ [][OrchNext]_vars

SpecRegistry == InitOrch /\ [][RegistryNext]_vars

ExtractNext == CallOrchestrate \/ PlanReplyFenced

SpecExtract == InitOrch /\ [][ExtractNext]_vars

InitLoop ==
    /\ LoopInit
    /\ OrchIdle
    /\ ShareIdle
    /\ AliasIdle
    /\ IF loopKind = "todos" THEN TodoInit ELSE TodoIdle

SpecLoop == InitLoop /\ [][LoopNext]_vars

InitFs == LoopIdle /\ TodoIdle /\ OrchIdle /\ ShareIdle /\ AliasIdle

SpecFs == InitFs /\ [][FsNext]_vars

\* every request the loop awaits is answered: client.messages.create resolves
SpecLoopLive == InitLoop /\ [][LoopNext]_vars /\ WF_vars(LoopNext)

\* ------------------------------------------------------------------------
\* Properties of TodoManager
\* ------------------------------------------------------------------------

inProgressCount(list) == Len(filterByStatus(list, "in_progress"))

\* C1: after a successful update the stored list holds at most one
\* in_progress task, and a candidate with two or more in_progress tasks is
\* rejected.
C1_AtMostOneInProgress ==
    lastCall.op = "update" =>
        /\ lastCall.error.kind = "ok" => (todos = lastCall.candidate /\ inProgressCount(todos) <= 1)
        /\ inProgressCount(lastCall.candidate) >= 2 => lastCall.error.kind # "ok"

\* an update was accepted whose candidate holds exactly one in_progress task
C1_Witness ==
    /\ lastCall.op = "update"
    /\ lastCall.error.kind = "ok"
    /\ inProgressCount(todos) = 1
    /\ Len(todos) = 2

\* C2: an update whose candidate fails validation raises a validation error
\* and leaves getAll() as it was before the call.
C2_FailedUpdateKeepsStore ==
    (lastCall.op = "update" /\ validate(lastCall.candidate).kind # "ok") =>
        /\ lastCall.error.kind # "ok"
        /\ getAll(todos) = lastCall.before

\* a rejected update on a store that held a task
C2_Witness ==
    /\ lastCall.op = "update"
    /\ lastCall.error.kind = "multiple_in_progress"
    /\ Len(todos) = 1
    /\ getAll(todos) = lastCall.before

\* the rule an error belongs to, in the numbering of the four rules
ruleOf(kind) ==
    IF kind = "empty" THEN 1
    ELSE IF kind = "multiple_in_progress" THEN 2
    ELSE IF kind \in {"content_empty", "activeForm_empty"} THEN 3
    ELSE IF kind = "invalid_status" THEN 4
    ELSE 0

\* the rules a list breaks
rulesBroken(list) ==
    (IF Len(list) = 0 THEN {1} ELSE {})
    \cup (IF inProgressCount(list) > 1 THEN {2} ELSE {})
    \cup (IF \E i \in 1..Len(list) :
                \/ list[i].content \in {"", " "}
                \/ list[i].activeForm \in {"", " "}
          THEN {3} ELSE {})
    \cup (IF \E i \in 1..Len(list) : list[i].status \notin {"pending", "in_progress", "completed"}
          THEN {4} ELSE {})

\* C16 as stated: the error update reports is that of the first of the rules
\* (empty list, more than one in_progress, empty content or activeForm on
\* any task, invalid status on any task) that the candidate breaks.
C16_FirstRuleWins ==
    lastCall.op = "update" =>
        IF rulesBroken(lastCall.candidate) = {} THEN lastCall.error.kind = "ok"
        ELSE \A r \in rulesBroken(lastCall.candidate) : ruleOf(lastCall.error.kind) <= r

\* the checks one task breaks, in the numbering content 1, activeForm 2, status 3
checksBroken(t) ==
    (IF t.content \in {"", " "} THEN {1} ELSE {})
    \cup (IF t.activeForm \in {"", " "} THEN {2} ELSE {})
    \cup (IF t.status \notin {"pending", "in_progress", "completed"} THEN {3} ELSE {})

checkKind(c) == IF c = 1 THEN "content_empty" ELSE IF c = 2 THEN "activeForm_empty" ELSE "invalid_status"

\* C16 as amended: update checks the empty list, then more than one
\* in_progress task, then the tasks one by one in list order, each for empty
\* content, empty activeForm and invalid status in this order; the error
\* reported is that of the first check that fails, with the 1-based index
\* of the task or the count of in_progress tasks.
C16_FirstCheckWins ==
    lastCall.op = "update" =>
        LET list == lastCall.candidate
            err == lastCall.error
            bad == { i \in 1..Len(list) : checksBroken(list[i]) # {} }
        IN  IF Len(list) = 0 THEN err.kind = "empty"
            ELSE IF inProgressCount(list) > 1
                 THEN err.kind = "multiple_in_progress" /\ err.count = inProgressCount(list)
            ELSE IF bad = {} THEN err.kind = "ok"
            ELSE /\ err.index \in bad
                 /\ \A i \in bad : err.index <= i
                 /\ \E c \in checksBroken(list[err.index]) :
                      /\ err.kind = checkKind(c)
                      /\ \A e \in checksBroken(list[err.index]) : c <= e

\* the first task has an invalid status, the second an empty content: the
\* invalid status of task 1 is reported
C16_Witness ==
    /\ lastCall.op = "update"
    /\ lastCall.candidate = <<Todo("a", "done", "A"), Todo(" ", "pending", "A")>>
    /\ lastCall.error = ValidationError("invalid_status", 1, 0)

\* an accepted update is followed at once by update of the same list
repeatedUpdate ==
    /\ lastCall.op = "update"
    /\ lastCall.error.kind = "ok"
    /\ lastCall'.op = "update"
    /\ lastCall'.candidate = lastCall.candidate

\* C17: update(list) called twice in a row with the same valid list succeeds
\* both times, getStats() reports the same after both calls, and the stored
\* list after the second call equals the stored list after the first.
C17_UpdateIdempotent ==
    [][repeatedUpdate =>
          /\ lastCall'.error.kind = "ok"
          /\ getStats(todos') = getStats(todos)
          /\ getAll(todos') = getAll(todos)
          /\ todos' = lastCall.candidate]_vars

\* the second of two updates with the same list of two tasks has been made
C17_Witness ==
    /\ lastCall.op = "update"
    /\ lastCall.error.kind = "ok"
    /\ lastCall.before = lastCall.candidate
    /\ todos = lastCall.candidate
    /\ Len(todos) = 2
    /\ getStats(todos).progress = 50

\* ------------------------------------------------------------------------
\* Properties of SubAgentOrchestrator
\* ------------------------------------------------------------------------

\* delegateParallel has been entered, directly or from orchestrate
ranParallel == call.api = "delegateParallel" \/ Len(branches) > 0

\* delegateParallel has returned its results to its caller
parReturned ==
    /\ ranParallel
    /\ \/ orchPc \in {"synth_wait", "returned"}
       \/ orchPc = "failed" /\ outcome.phase = "synth"

\* branch i failed: its agent was not registered or its model call failed
branchFailed(i) == branches[i].req = 0 \/ ~answered[branches[i].req].ok

\* what task i came to: the text of the reply to its own request, or its error
expectedResult(i) ==
    IF branches[i].req = 0
    THEN SubAgentResult(tasks[i].agentName, EmptyText, NotFound)
    ELSE LET reply == answered[branches[i].req]
         IN  IF reply.ok
             THEN SubAgentResult(tasks[i].agentName, firstText(reply.content), "")
             ELSE SubAgentResult(tasks[i].agentName, EmptyText, reply.error)

\* C3: delegateParallel returns as many results as tasks, result i carrying
\* the agent name of task i and the outcome of task i, whatever the order in
\* which the branches completed.
C3_ResultsInInputOrder ==
    parReturned =>
        /\ Len(results) = Len(tasks)
        /\ \A i \in 1..Len(tasks) :
             /\ results[i].agentName = tasks[i].agentName
             /\ results[i] = expectedResult(i)
             /\ branches[i].req # 0 =>
                  /\ requests[branches[i].req].agent = tasks[i].agentName
                  /\ requests[branches[i].req].messages = <<UserTurn(tasks[i].prompt)>>

\* two branches of different agents completed in the reverse of input order
C3_Witness ==
    /\ parReturned
    /\ Len(tasks) = 2
    /\ tasks[1].agentName # tasks[2].agentName
    /\ settled = <<2, 1>>
    /\ results[1].result # results[2].result

\* C4: a failing branch of delegateParallel yields a result with its error
\* text, every sibling still runs and returns its own output, and the call
\* itself does not fail.
C4_BranchFailureIsolated ==
    ranParallel =>
        /\ ~(outcome.kind = "threw" /\ outcome.phase = "execute")
        /\ \A i \in 1..Len(tasks) :
             mapHas(subAgents, tasks[i].agentName) => branches[i].req # 0
        /\ parReturned =>
             \A i \in 1..Len(tasks) :
                IF branchFailed(i)
                THEN results[i].error # "" /\ results[i].result = EmptyText
                ELSE /\ results[i].error = ""
                     /\ results[i].result = firstText(answered[branches[i].req].content)

\* an unregistered agent in the first branch, a successful sibling after it
C4_Witness ==
    /\ parReturned
    /\ Len(tasks) = 2
    /\ branches[1].req = 0
    /\ results[1].error = NotFound
    /\ ~branchFailed(2)
    /\ results[2].result # EmptyText

\* C5: when delegateParallel returns, every branch has settled and the
\* result list is complete.
C5_ReturnsAfterAllSettle ==
    parReturned =>
        /\ \A i \in 1..Len(branches) : branches[i].state # "pending"
        /\ Len(results) = Len(tasks)
        /\ Len(settled) = Len(tasks)
        /\ \A k \in 1..Len(requests) :
             requests[k].kind = "sub" => answered[k] # NoReply

\* both branches waited for their replies before the call returned
C5_Witness ==
    /\ parReturned
    /\ Len(tasks) = 2
    /\ branches[1].req # 0
    /\ branches[2].req # 0
    /\ Len(settled) = 2

\* the plan asks for one step at a time (line 865 false)
sequentialPlan ==
    /\ call.api = "orchestrate"
    /\ plan.kind = "plan"
    /\ (~plan.parallel \/ Len(plan.tasks) <= 1)

\* the indices of the sub-agent requests in the order they were issued
subRequestIndices == SelectSeq(Indices(Len(requests)), LAMBDA k : requests[k].kind = "sub")

\* C6: in a sequential execution a failing step is recorded as that step's
\* result with its error text, the later steps still run and orchestrate
\* goes on to the synthesis.
C6_SequentialFailureAbsorbed ==
    (sequentialPlan /\ orchPc \in {"returned", "failed"}) =>
        /\ ~(outcome.kind = "threw" /\ outcome.phase = "execute")
        /\ Len(results) = Len(tasks)
        /\ \E k \in 1..Len(requests) : requests[k].kind = "synth"

\* C7: in a sequential execution the sub-agent calls are issued in plan
\* order, and the call of a step is issued only after the call of the step
\* before it has completed.
C7_SequentialOrder ==
    sequentialPlan =>
        LET issued == subRequestIndices
        IN  /\ Len(issued) <= Len(tasks)
            /\ \A j \in 1..Len(issued) :
                 /\ requests[issued[j]].agent = tasks[j].agentName
                 /\ requests[issued[j]].messages = <<UserTurn(tasks[j].prompt)>>
                 /\ j < Len(issued) => answered[issued[j]] # NoReply

\* the second step's call is in flight, the first has been answered
C7_Witness ==
    /\ sequentialPlan
    /\ orchPc = "seq_wait"
    /\ Len(subRequestIndices) = 2
    /\ answered[subRequestIndices[1]].ok
    /\ answered[subRequestIndices[2]] = NoReply

\* the planning reply has arrived and holds no plan
planReplyUnparsable ==
    /\ call.api = "orchestrate"
    /\ orchPc # "planning"
    /\ answered[1].ok
    /\ LET parsed == jsonParse(extractJson(firstText(answered[1].content)))
       IN  ~parsed.ok \/ parsed.value.kind # "plan"

\* C8: when the planning reply cannot be parsed as a plan, orchestrate fails
\* with an error: no sub-agent call and no synthesis request is issued and
\* no text is returned.
C8_ParseFailureIsFatal ==
    planReplyUnparsable =>
        /\ orchPc = "failed"
        /\ outcome.kind = "threw"
        /\ outcome.text = EmptyText
        /\ \A k \in 1..Len(requests) : requests[k].kind = "plan"
        /\ results = <<>>
        /\ branches = <<>>

\* the reply was prose inside a json code fence
C8_Witness ==
    /\ planReplyUnparsable
    /\ orchPc = "failed"
    /\ planText = <<Fence, JsonTag, Ws, Prose, Ws, Fence>>

\* ------------------------------------------------------------------------
\* Properties of the tool-use loops
\* ------------------------------------------------------------------------

\* the tools each loop hands to the model
RegisteredTools(kind) ==
    IF kind = "todos" THEN {"todo_write"}
    ELSE IF kind = "sandbox" THEN {"read_file", "write_file", "list_files", "delete_file"}
    ELSE {"get_weather"}

\* the positions of the assistant turns the loop has answered
answeredTurns == { i \in 1..(Len(messages) - 1) : messages[i].role = "assistant" }

idsProposed(i) ==
    [k \in 1..Len(toolUsesOf(messages[i].content)) |-> toolUsesOf(messages[i].content)[k].id]

idsAnswered(i) ==
    [k \in 1..Len(messages[i + 1].content) |-> messages[i + 1].content[k].tool_use_id]

\* C9: in every round the user turn appended after the assistant turn holds
\* exactly one tool_result per tool_use block of the response, carrying that
\* block's id, in the order the blocks were proposed.
C9_OneResultPerToolUse ==
    \A i \in answeredTurns :
        /\ messages[i + 1].role = "user"
        /\ idsAnswered(i) = idsProposed(i)

\* a tool result that tells the model the call failed
isErrorResult(kind, r) ==
    \/ r.is_error
    \/ kind = "sandbox" /\ ~r.content.success /\ r.content.error # ""
    \/ kind = "todos" /\ ~r.content.ok

\* C10: a proposed call to a tool name that is not registered gets a tool
\* result marked as an error in the user turn of the next request, and the
\* loop goes on. Stated for the first call of a response.
C10_UnknownToolGetsErrorResult ==
    \A i \in answeredTurns :
        LET first == firstToolUse(messages[i].content)
        IN  (first # <<>> /\ first[1].name \notin RegisteredTools(loopKind)) =>
                /\ loopPc = "awaiting" \/ i + 1 < Len(messages)
                /\ \E k \in 1..Len(messages[i + 1].content) :
                     /\ messages[i + 1].content[k].tool_use_id = first[1].id
                     /\ isErrorResult(loopKind, messages[i + 1].content[k])

\* the model requests a loop has issued: the one before the while loop and
\* one at the end of every pass that pushed its two turns
modelRequests == 1 + Cardinality({ i \in 1..Len(messages) : messages[i].role = "assistant" })

\* the cap of the loop that runs
maxIterationsOf(kind) == IF kind = "todos" THEN maxIterationsTodos ELSE maxIterationsSandbox

cappedLoop == loopKind \in {"todos", "sandbox"}

\* C11: runAgentWithTodos and SandboxedClaudeAgent.run never perform more
\* than maxIterations tool rounds (30 and 10) nor more than maxIterations + 1
\* model requests, every answered request either ends the loop or uses up
\* one of the rounds, and the loop ends whatever the model answers.
C11_LoopTerminates ==
    /\ [](cappedLoop =>
            /\ iterations <= maxIterationsOf(loopKind)
            /\ modelRequests <= maxIterationsOf(loopKind) + 1
            /\ modelRequests <= iterations + 1)
    /\ [][cappedLoop => (loopPc' = "done" \/ iterations' = iterations + 1)]_vars
    /\ (cappedLoop => <>(loopPc = "done"))

\* the cap of runAgentWithTodos stopped a model that was still asking for a tool
C11_Witness ==
    /\ loopKind = "todos"
    /\ loopPc = "done"
    /\ iterations = maxIterationsTodos
    /\ response.stop_reason = "tool_use"
    /\ modelRequests = maxIterationsTodos + 1

\* the tools SandboxedClaudeAgent hands to the file system
FileTools == {"read_file", "write_file", "list_files", "delete_file"}

\* the tool result the loop has just pushed
lastResult(history) == history[Len(history)].content[1]

\* C12: in SandboxedClaudeAgent.run no file operation aborts the loop: the
\* run never ends with an error, every executed tool call is answered by one
\* tool result carrying the call's id, a failed operation's result holds
\* success false and an error text, and after pushing it the loop issues
\* the next request.
C12_ToolFailureFedBack ==
    /\ [](loopKind = "sandbox" =>
            /\ loopPc # "failed"
            /\ \A i \in answeredTurns :
                 LET first == firstToolUse(messages[i].content)
                     result == messages[i + 1].content[1]
                 IN  /\ first # <<>>
                     /\ messages[i + 1].role = "user"
                     /\ result.tool_use_id = first[1].id
                     /\ ~result.content.threw
                     /\ result.content.success \/ result.content.error # "")
    /\ [][(loopKind = "sandbox" /\ messages' # messages) =>
            LET used == firstToolUse(response'.content)[1]
            IN  /\ loopPc' = "awaiting"
                /\ lastResult(messages').content = executeTool(fsFiles, used.name, used.input).result
                /\ modelRequests' = modelRequests + 1]_vars

\* a read outside the sandbox was refused, the loop went on, the delete of a
\* directory then failed inside the file system, and the loop goes on again
C12_Witness ==
    /\ loopKind = "sandbox"
    /\ loopPc = "awaiting"
    /\ Len(messages) = 5
    /\ messages[3].content[1].content.error = securityError
    /\ messages[5].content[1].content.error = "EISDIR"
    /\ ~messages[5].content[1].content.success

\* the todo_write calls of the assistant turn at position i, in order
todoWritesOf(i) == SelectSeq(toolUsesOf(messages[i].content), LAMBDA b : b.name = "todo_write")

\* the text executeTodoWrite owes to input: the statistics of the accepted
\* list, or the error of the first broken rule
owedText(input) ==
    IF ~input.hasTodos THEN ErrorText(TypeError)
    ELSE IF validate(input.todos).kind = "ok" THEN SuccessText(getStats(input.todos))
    ELSE ErrorText(validate(input.todos))

\* C13: executeTodoWrite never throws: runAgentWithTodos is never left by an
\* error of the handler, and every todo_write call is answered by a text,
\* the success text with completed, total and the progress percentage of the
\* accepted list when the update is accepted, and an error text when the
\* input has no list or fails validation.
C13_TodoWriteAlwaysReturnsText ==
    loopKind = "todos" =>
        /\ loopPc # "failed"
        /\ \A i \in answeredTurns :
             /\ Len(messages[i + 1].content) = Len(todoWritesOf(i))
             /\ \A k \in 1..Len(todoWritesOf(i)) :
                  LET text == messages[i + 1].content[k].content
                      input == todoWritesOf(i)[k].input
                  IN  /\ text = owedText(input)
                      /\ text.ok <=> (input.hasTodos /\ validate(input.todos).kind = "ok")
                      /\ text.ok =>
                           /\ text.stats.total = Len(input.todos)
                           /\ text.stats.completed = Len(filterByStatus(input.todos, "completed"))
                           /\ text.stats.progress =
                                roundDiv(100 * text.stats.completed, text.stats.total)
                      /\ ~text.ok => text.error.kind # "ok"

\* one response asked for an update that was accepted (1 of 2 completed,
\* 50%) and for one that holds two in_progress tasks
C13_Witness ==
    /\ loopKind = "todos"
    /\ Len(messages) = 3
    /\ Len(messages[3].content) = 2
    /\ messages[3].content[1].content.ok
    /\ messages[3].content[1].content.stats.progress = 50
    /\ messages[3].content[2].content.error.kind = "multiple_in_progress"

\* the task the sub-agent request at position k was issued for: the task of
\* its branch in delegateParallel, the step of its rank in the for loop
taskOfRequest(k) ==
    IF ranParallel
    THEN tasks[CHOOSE i \in 1..Len(branches) : branches[i].req = k]
    ELSE tasks[CHOOSE j \in 1..Len(subRequestIndices) : subRequestIndices[j] = k]

\* C14: every sub-agent request carries exactly one message, the user turn
\* made of the prompt delegated to it, and the system prompt and model
\* registered under its agent's name; nothing else is in it, whatever was
\* requested or answered before it or beside it.
C14_SubAgentContextIsolated ==
    \A k \in 1..Len(requests) :
        requests[k].kind = "sub" =>
            LET task == taskOfRequest(k)
                own == mapGet(subAgents, task.agentName)
            IN  /\ Len(requests[k].messages) = 1
                /\ requests[k].messages[1] = [role |-> "user", content |-> task.prompt]
                /\ requests[k].agent = task.agentName
                /\ requests[k].system = own.systemPrompt
                /\ requests[k].model = own.model

\* the second step of a sequential plan is requested from another agent
\* after the first step's agent has answered with a text
C14_Witness ==
    /\ sequentialPlan
    /\ Len(subRequestIndices) = 2
    /\ answered[subRequestIndices[1]].ok
    /\ firstText(answered[subRequestIndices[1]].content) # EmptyText
    /\ tasks[1].agentName # tasks[2].agentName
    /\ tasks[1].prompt # tasks[2].prompt
    /\ requests[subRequestIndices[1]].system # requests[subRequestIndices[2]].system

\* the agent loops other than p
othersOf(p) == AgentIds \ {p}

\* C15: on a TodoManager shared by several agent loops the update calls take
\* effect one at a time: while one loop is inside update no other loop
\* moves, and every change of the stored list installs, whole, the candidate
\* of the update that runs, after it passed validation; the list a reader
\* finds is the list stored before or such a candidate.
C15_UpdatesSerialized ==
    [][/\ running # 0 =>
            \A q \in othersOf(running) :
                agentPc'[q] = agentPc[q] /\ agentCandidate'[q] = agentCandidate[q]
       /\ todos' # todos =>
            /\ running # 0
            /\ agentPc[running] = "assign"
            /\ todos' = agentCandidate[running]
            /\ validate(todos').kind = "ok"
            /\ \A q \in othersOf(running) : agentPc[q] \in {"awaiting", "done"}]_vars

\* the list one loop stored is in place while another loop's update, with a
\* different valid candidate, is about to replace it
C15_Witness ==
    /\ running = 2
    /\ agentPc[2] = "assign"
    /\ agentRounds[1] = 1
    /\ agentPc[1] = "awaiting"
    /\ Len(todos) = 2
    /\ agentCandidate[2] # todos

\* the caller has just changed the array it holds or a task in it
callerMutated == callerStep' \in {"mutateArray", "mutateField"}

\* what the getters report is the same after the step as before it
gettersUnchanged ==
    /\ getAll(todos') = getAll(todos)
    /\ \A st \in TodoStatus : filterByStatus(todos', st) = filterByStatus(todos, st)
    /\ getInProgress(todos') = getInProgress(todos)
    /\ getStats(todos') = getStats(todos)

\* C18: changing the array getAll() returned (adding, removing, reordering
\* entries) or a field of a task in it changes nothing of what getAll,
\* getByStatus, getInProgress and getStats report afterwards.
C18_GetAllIsDefensiveCopy ==
    [][(callerMutated /\ heldFrom = "getAll") => gettersUnchanged]_vars

\* C19: after update(list) succeeded, the caller changing the list it
\* passed in, or a task in it, does not change the stored list.
C19_UpdateTakesNoAlias ==
    [][(callerMutated /\ heldFrom = "update" /\ lastCall.error.kind = "ok") =>
          todos' = todos]_vars

\* the entries of the Map under a name
entriesOf(name) == { i \in 1..Len(subAgents) : subAgents[i].name = name }

\* the model a SubAgent built from a config sends
modelOf(config) == IF config.model = "" THEN "claude-3-5-sonnet-20241022" ELSE config.model

\* C20: registering a sub-agent under a name already registered succeeds and
\* replaces the earlier entry: the name has one entry, made from the config
\* of its latest registration, and every sub-agent request issued under the
\* name carries the system prompt and the model of that registration.
C20_LastRegistrationWins ==
    /\ \A n \in AgentNames :
         IF registered[n] = NoRegistration THEN entriesOf(n) = {}
         ELSE /\ Cardinality(entriesOf(n)) = 1
              /\ \A i \in entriesOf(n) :
                   /\ subAgents[i].systemPrompt = registered[n].config.systemPrompt
                   /\ subAgents[i].model = modelOf(registered[n].config)
    /\ \A k \in 1..Len(requests) :
         requests[k].kind = "sub" =>
            /\ registered[requests[k].agent] # NoRegistration
            /\ requests[k].system = registered[requests[k].agent].config.systemPrompt
            /\ requests[k].model = modelOf(registered[requests[k].agent].config)

\* writer was registered, reviewer after it, and the call that has just
\* returned registered writer again, with the other prompt and a model of
\* its own: writer is still the first of two entries and holds the new config
C20_Witness ==
    /\ call.api = "registerSubAgent"
    /\ call.name = "writer"
    /\ call.replaced
    /\ registered["writer"] = Registration(GivenConfig("writer", "s2", OtherModel))
    /\ Len(subAgents) = 2
    /\ subAgents[1] = SubAgentConfig(GivenConfig("writer", "s2", OtherModel))
    /\ subAgents[2].name = "reviewer"

\* C21: listSubAgents() returns each registered name exactly once, in the
\* order the names were first registered, whatever registrations and
\* re-registrations came before it.
C21_ListInRegistrationOrder ==
    call.api = "listSubAgents" =>
        /\ call.names = firstNames
        /\ \A i, j \in 1..Len(call.names) : call.names[i] = call.names[j] => i = j
        /\ { call.names[i] : i \in 1..Len(call.names) }
              = { n \in AgentNames : registered[n].present }

\* writer was registered, reviewer after it, writer once more, and the
\* listing that followed names writer first and reviewer second
C21_Witness ==
    /\ call.api = "listSubAgents"
    /\ call.after.api = "registerSubAgent"
    /\ call.after.name = "writer"
    /\ call.after.replaced
    /\ call.names = <<"writer", "reviewer">>

\* C22: delegateToSubAgent under a name nothing is registered under throws
\* the not-found error and no request has gone to the model.
C22_UnknownAgentThrowsBeforeRequest ==
    (call.api = "delegateToSubAgent" /\ ~registered[call.task.agentName].present) =>
        /\ orchPc = "failed"
        /\ outcome = Threw(NotFound, "execute")
        /\ requests = <<>>

\* reviewer is registered, writer is not, and a task was delegated to writer
C22_Witness ==
    /\ call.api = "delegateToSubAgent"
    /\ call.task.agentName = "writer"
    /\ registered["reviewer"].present
    /\ ~registered["writer"].present
    /\ outcome.kind = "threw"

\* the file a new TodoManager found is missing or is not JSON
unusableFile == todoFile.kind \in {"missing", "malformed"}

\* C23: with the file missing or not JSON, the constructor returns, the
\* store is the empty list, getAll and getStats report it, and an update
\* that follows is validated and stored as on any other store.
C23_LoadFailureStartsEmpty ==
    /\ []((lastCall.op = "new" /\ unusableFile) =>
             /\ lastCall.error = NoError
             /\ todos = <<>>
             /\ getAll(todos) = <<>>
             /\ getStats(todos).total = 0
             /\ getStats(todos).progress = 0)
    /\ [][(lastCall.op = "new" /\ unusableFile /\ lastCall'.op = "update") =>
             /\ lastCall'.error = validate(lastCall'.candidate)
             /\ todos' = IF lastCall'.error = NoError THEN lastCall'.candidate ELSE <<>>]_vars

\* the file was not JSON and cannot be written; the manager started empty
\* and a first update of two tasks was accepted
C23_Witness ==
    /\ todoFile = MalformedFile
    /\ lastCall.op = "update"
    /\ lastCall.before = <<>>
    /\ lastCall.error = NoError
    /\ Len(todos) = 2

\* C24: an update whose list passes validation while the file cannot be
\* written returns without an error, and the stored list is the list given.
C24_SaveFailureKeepsUpdate ==
    (lastCall.op = "update" /\ validate(lastCall.candidate) = NoError /\ ~diskOk) =>
        /\ lastCall.error = NoError
        /\ todos = lastCall.candidate
        /\ getAll(todos) = lastCall.candidate

\* the file holds one pending task and cannot be written; an update of two
\* tasks was accepted: the store has the two tasks, the file still the one
C24_Witness ==
    /\ ~diskOk
    /\ todoFile = JsonFile(<<Todo("a", "pending", "A")>>)
    /\ lastCall.op = "update"
    /\ lastCall.error = NoError
    /\ Len(todos) = 2
    /\ todos = lastCall.candidate

\* the tasks of the store that have a status
countOf(status) == Cardinality({ i \in 1..Len(todos) : todos[i].status = status })

\* C25: getStats() reports total = the number of stored tasks = pending +
\* inProgress + completed, and progress = round(100 * completed / total),
\* halves rounded up, or 0 for the empty store.
C25_StatsAddUpAndProgressRounded ==
    lastCall.op = "getStats" =>
        LET stats == lastCall.stats
        IN  /\ stats.total = Len(todos)
            /\ stats.total = stats.pending + stats.inProgress + stats.completed
            /\ stats.completed = countOf("completed")
            /\ stats.progress = IF Len(todos) = 0 THEN 0
                                 ELSE roundDiv(100 * countOf("completed"), Len(todos))

\* pending, in_progress, completed in the order a task passes through them
statusRank(status) ==
    IF status = "pending" THEN 1 ELSE IF status = "in_progress" THEN 2 ELSE 3

\* the places of a content in a list
placesOf(list, content) == { i \in 1..Len(list) : list[i].content = content }

\* some task, the only one of its content in both lists, has an earlier
\* status in the new list than in the old one
movedBack(old, new) ==
    \E i \in 1..Len(old) : \E j \in 1..Len(new) :
        /\ placesOf(old, old[i].content) = {i}
        /\ placesOf(new, old[i].content) = {j}
        /\ statusRank(new[j].status) < statusRank(old[i].status)

\* C26: an update whose list moves a stored task back, from completed or
\* in_progress to an earlier status, is rejected and the store keeps its list.
C26_StatusOnlyMovesForward ==
    [][(lastCall'.op = "update" /\ movedBack(todos, lastCall'.candidate)) =>
          /\ lastCall'.error # NoError
          /\ todos' = todos]_vars

\* the path lies in the working directory: its segments begin with those
\* of the working directory
insideWorkDir(full) ==
    /\ Len(full) >= Len(workDir)
    /\ SubSeq(full, 1, Len(workDir)) = workDir

\* C27: readFile, writeFile, listFiles and deleteFile called with a path
\* that resolves outside the working directory return success false with
\* the security error, hand out no content and no listing, and leave every
\* file as it was.
C27_OutsidePathsRefused ==
    (fsCall.op # "none" /\ ~insideWorkDir(resolvePath(fsCall.path))) =>
        /\ ~fsCall.result.success
        /\ fsCall.result.error = securityError
        /\ fsCall.result.content = ""
        /\ fsCall.result.files = {}
        /\ fsFiles = fsCall.before

\* C28: a message added to a clone shows in no other builder, be it the
\* builder it was cloned from or another clone, and in no query built before.
C28_CloneIsIndependent ==
    [][(builderCall'.op = "addMessage" /\ builders[builderCall'.builder].from # 0) =>
          /\ \A b \in 1..Len(builders) :
                b # builderCall'.builder =>
                   messagesAt(arrays', builders'[b].messages)
                     = messagesAt(arrays, builders[b].messages)
          /\ \A q \in 1..Len(built) :
                messagesAt(arrays', built'[q]) = messagesAt(arrays, built[q])]_vars

\* the positions of the proposed todo_write calls whose list passes validation
passing(writes) ==
    { k \in 1..Len(writes) : writes[k].input.hasTodos /\ validate(writes[k].input.todos).kind = "ok" }

\* C29: after a tool round of runAgentWithTodos the stored list is the list
\* of the last todo_write call of the response, in the order proposed, that
\* passed validation, or the list stored before the round if none passed;
\* the calls are answered in the order proposed, each accepted call with
\* the statistics of its own list.
C29_LastValidWriteWins ==
    [][(loopKind = "todos" /\ messages' # messages) =>
          LET writes == SelectSeq(toolUsesOf(response'.content),
                                  LAMBDA b : b.name = "todo_write")
              answers == messages'[Len(messages')].content
          IN  /\ todos' = IF passing(writes) = {} THEN todos
                          ELSE writes[CHOOSE k \in passing(writes) :
                                         \A j \in passing(writes) : j <= k].input.todos
              /\ Len(answers) = Len(writes)
              /\ \A k \in 1..Len(writes) :
                    /\ answers[k].tool_use_id = writes[k].id
                    /\ answers[k].content.ok <=> k \in passing(writes)
                    /\ k \in passing(writes) =>
                          answers[k].content.stats.total = Len(writes[k].input.todos)]_vars

\* one response proposed two lists that both pass, the in_progress task
\* first and the two-task list second, and the store holds the second
C29_Witness ==
    /\ loopKind = "todos"
    /\ Len(messages) = 3
    /\ Len(messages[3].content) = 2
    /\ messages[3].content[1].content.ok
    /\ messages[3].content[1].content.stats.total = 1
    /\ messages[3].content[2].content.ok
    /\ messages[3].content[2].content.stats.total = 2
    /\ Len(todos) = 2

\* orchestrate has parsed a plan of several steps whose flag asks for
\* parallel execution
parallelPlan ==
    /\ call.api = "orchestrate"
    /\ plan.kind = "plan"
    /\ plan.parallel
    /\ Len(plan.tasks) > 1

\* the requests the model has not answered yet
inFlight == { k \in 1..Len(requests) : answered[k] = NoReply }

\* C30: orchestrate hands a plan to delegateParallel, which starts every
\* step before any reply arrives, exactly when the plan's flag is true and
\* the plan has more than one step; a plan with the flag false, or with no
\* step or one step, goes through the loop, which starts no branch and has
\* at most one call in flight, that of the step it stands at.
C30_ParallelIffFlagAndSeveralSteps ==
    /\ parallelPlan =>
          /\ Len(branches) = Len(plan.tasks)
          /\ seqIndex = 0
          /\ \A i \in 1..Len(plan.tasks) :
                mapHas(subAgents, plan.tasks[i].agentName) =>
                   /\ branches[i].req \in 2..Len(requests)
                   /\ requests[branches[i].req].agent = plan.tasks[i].agentName
    /\ sequentialPlan =>
          /\ branches = <<>>
          /\ Cardinality(inFlight) <= 1
          /\ Len(requests) <= seqIndex + 1

\* both steps of a parallel plan are in flight at once
C30_Witness ==
    /\ parallelPlan
    /\ orchPc = "par_wait"
    /\ Cardinality(inFlight) = 2

\* the loops that hand a final answer on
answeringLoop == loopKind \in {"todos", "sandbox"}

\* the positions of the text blocks of a response
textBlocksOf(content) == { i \in 1..Len(content) : content[i].type = "text" }

answerOf(kind, content) ==
    IF textBlocksOf(content) # {}
    THEN FinalText(content[CHOOSE i \in textBlocksOf(content) :
                              \A j \in textBlocksOf(content) : i <= j].text)
    ELSE IF kind = "sandbox" THEN FinalText(Placeholder) ELSE NoFinal

pastPlanning ==
    /\ call.api = "orchestrate"
    /\ orchPc \notin {"idle", "planning"}
    /\ answered[1].ok
    /\ answered[1].content # <<>>

\* the text of the planning reply and the one plan written in it
replyText == answered[1].content[1].text
writtenPlan == replyText[CHOOSE i \in 1..Len(replyText) : replyText[i].t = "value"].v

\* the pieces of the reply text other than whitespace
solidPieces == SelectSeq(replyText, LAMBDA x : x.t # "ws")

\* C33: a planning reply that holds a valid plan between code-fence
\* markers, with or without the json tag, with or without text before and
\* after the block, makes orchestrate execute exactly that plan; a reply
\* without fence markers is handed to JSON.parse as a whole, trimmed: it
\* gives the plan when the plan is all it holds and a parse error when
\* there is text beside the plan.
C33_FencedPlanExtracted ==
    pastPlanning =>
        /\ fenceAt(replyText) # {} =>
              /\ plan = writtenPlan
              /\ tasks = writtenPlan.tasks
              /\ ~(outcome.kind = "threw" /\ outcome.phase = "parse")
        /\ fenceAt(replyText) = {} =>
              IF Len(solidPieces) = 1
              THEN plan = writtenPlan /\ tasks = writtenPlan.tasks
              ELSE plan = NoPlan /\ outcome.kind = "threw" /\ outcome.phase = "parse"

\* a plan of one step was taken from a json fence with prose on both sides
C33_Witness ==
    /\ pastPlanning
    /\ replyText = <<Prose, Ws, Fence, JsonTag, Ws,
                     JsonTok(PlanValue(<<SubAgentTask("reviewer", "p1")>>, TRUE)), Fence, Prose>>
    /\ plan = PlanValue(<<SubAgentTask("reviewer", "p1")>>, TRUE)

\* the synthesis requests orchestrate has issued
synthIndices == { k \in 1..Len(requests) : requests[k].kind = "synth" }

\* the request that carried step i of the plan to its sub-agent, 0 if none;
\* subs holds the sub-agent requests of a sequential run in issue order
requestOfStep(i, subs) ==
    IF parallelPlan THEN branches[i].req
    ELSE IF i <= Len(subs) THEN subs[i] ELSE 0

\* what step i of the plan came to when request k carried it: the name of
\* its agent with the first text of the reply, or with the error that ended
\* the step
entryOfStep(i, k) ==
    IF k = 0 THEN SubAgentResult(tasks[i].agentName, EmptyText, NotFound)
    ELSE IF answered[k].ok
         THEN SubAgentResult(tasks[i].agentName,
                             IF textBlocksOf(answered[k].content) = {} THEN EmptyText
                             ELSE answered[k].content[1].text, "")
         ELSE SubAgentResult(tasks[i].agentName, EmptyText, answered[k].error)

\* C34: the synthesis request of orchestrate holds the user request as it
\* was given and one entry for every step of the plan, in plan order, with
\* the agent's name, its output and, for a failed step, its error text; the
\* text orchestrate returns is the first text of the synthesis reply.
C34_SynthesisEmbedsAllResults ==
    call.api = "orchestrate" =>
        \A k \in 1..Len(requests) : requests[k].kind = "synth" =>
            \A subs \in { IF parallelPlan THEN <<>> ELSE subRequestIndices } :
                LET body == requests[k].messages[1].content
                IN  /\ body.request = call.userRequest
                    /\ Len(body.results) = Len(plan.tasks)
                    /\ \A i \in 1..Len(plan.tasks) :
                          \A r \in { requestOfStep(i, subs) } :
                              body.results[i] = entryOfStep(i, r)
                    /\ orchPc = "returned" =>
                          /\ answered[k].ok
                          /\ outcome.kind = "returned"
                          /\ outcome.text = IF answered[k].content = <<>> THEN EmptyText
                                            ELSE answered[k].content[1].text

\* orchestrate returned the synthesis text of a parallel plan whose first
\* step gave a text and whose second step failed in the model call
C34_Witness ==
    /\ call.api = "orchestrate"
    /\ orchPc = "returned"
    /\ parallelPlan
    /\ synthIndices # {}
    /\ results[1].error = ""
    /\ results[1].result # EmptyText
    /\ results[2].error = "rpc_error"
    /\ outcome.text # EmptyText

\* C35: the model requests of a run of orchestrate come in the order plan,
\* sub-agent calls, synthesis: the first request is the one planning
\* request and it is answered before a sub-agent call is issued, there is at
\* most one synthesis request, it is the last request, and when it is
\* issued every sub-agent call has been answered and every step of the plan
\* has its result.
C35_PlanThenStepsThenSynthesis ==
    call.api = "orchestrate" =>
        /\ requests # <<>>
        /\ requests[1].kind = "plan"
        /\ \A k \in 2..Len(requests) :
              /\ requests[k].kind \in {"sub", "synth"}
              /\ answered[1].ok
              /\ requests[k].kind = "synth" =>
                    /\ k = Len(requests)
                    /\ \A j \in 1..(k - 1) : answered[j] # NoReply /\ requests[j].kind # "synth"
                    /\ Len(results) = Len(plan.tasks)

\* the two steps of a sequential plan have been answered and the synthesis
\* request is in flight
C35_Witness ==
    /\ call.api = "orchestrate"
    /\ sequentialPlan
    /\ orchPc = "synth_wait"
    /\ Len(requests) = 4
    /\ requests[4].kind = "synth"
    /\ answered[2].ok /\ answered[3].ok
    /\ answered[4] = NoReply

\* C36: whatever the file held when the TodoManager was constructed and
\* whatever update and clear calls followed, the stored list holds at most
\* one in_progress task.
C36_StoreNeverHoldsTwoInProgress ==
    getInProgress(todos) # NoTodo => inProgressCount(todos) = 1

\* the role the turn at position i of a history has to carry
roleAt(i) == IF i % 2 = 1 THEN "user" ELSE "assistant"

\* C37: the history a tool loop sends with a request begins with the user
\* message the loop was started with, its roles alternate user, assistant,
\* user and so on, its last turn is a user turn, and from one request to
\* the next the history only grows at its end: the turns sent before are
\* sent again unchanged.
C37_HistoryAppendOnlyAlternating ==
    /\ []((loopKind # "none" /\ loopPc = "awaiting") =>
            /\ messages # <<>>
            /\ messages[1] = [role |-> "user", content |-> "u1"]
            /\ \A i \in 1..Len(messages) : messages[i].role = roleAt(i)
            /\ messages[Len(messages)].role = "user")
    /\ [][loopKind # "none" =>
            /\ Len(messages') >= Len(messages)
            /\ \A i \in 1..Len(messages) : messages'[i] = messages[i]]_vars

\* the third request of SandboxedClaudeAgent.run is in flight: two rounds
\* have added their two turns each
C37_Witness ==
    /\ loopKind = "sandbox"
    /\ modelMode = "varied"
    /\ loopPc = "awaiting"
    /\ Len(messages) = 5
    /\ messages[2].role = "assistant"
    /\ messages[4].role = "assistant"
    /\ messages[5].content[1].type = "tool_result"

\* C38: toolUseExample ends whatever the model answers, also when every
\* answer has the stop reason tool_use: there is a number of rounds after
\* which the loop has ended, and MaxExampleRounds is at least that number.
C38_ExampleLoopTerminates ==
    (loopKind = "example" /\ round >= MaxExampleRounds) => loopPc = "done"

\* getAll() of a TodoManager constructed now on the file
reloaded == getAll(load(todoFile))

\* an update passed validation
updateAccepted == lastCall.op = "update" /\ lastCall.error.kind = "ok"

failedUpdateStep ==
    /\ lastCall'.op = "update"
    /\ validate(lastCall'.candidate).kind # "ok"
    /\ lastCall' # lastCall
C40_FailedUpdateLeavesFile ==
    [][failedUpdateStep => (todoFile' = todoFile /\ ~lastCall'.displayed)]_vars

\* a rejected update on a writable disk whose list, had it been written,
\* would have changed the file
C40_Witness ==
    /\ lastCall.op = "update"
    /\ lastCall.error.kind = "multiple_in_progress"
    /\ ~lastCall.displayed
    /\ diskOk
    /\ todoFile = JsonFile(<<Todo("a", "pending", "A")>>)
    /\ JsonFile(lastCall.candidate) # todoFile

====
